---- MODULE Spec2Model ----
(***************************************************************************)
(* Certificate ledger and proof verification of zkvault-simulator.         *)
(*                                                                         *)
(* The browser's localStorage is the state: the contract ledger of         *)
(* src/src/App.tsx (certificates, blocks, transactions, events, block      *)
(* number), the simulation ledger of src/src/lib/simulation/blockchain.ts  *)
(* (records, verification logs, the same block number key) and the         *)
(* nullifier registry of src/src/lib/zksnark/verifier.ts.                  *)
(*                                                                         *)
(* SHA-256 (hashString) is modelled as an injective tagging of its input,  *)
(* JSON.stringify likewise; values drawn from crypto.getRandomValues or    *)
(* Math.random are modelled as fresh values numbered by a draw counter.    *)
(***************************************************************************)
EXTENDS Integers, Sequences, FiniteSets, TLC

VARIABLES
    certificates,      \* localStorage['zkvault_certificates'] (App.tsx)
    blocks,            \* localStorage['zkvault_blocks']
    transactions,      \* localStorage['zkvault_transactions']
    events,            \* localStorage['zkvault_events']
    blockNumberItem,   \* localStorage['zkvault_block_number']: <<>> when absent, <<n>> otherwise
    blockchain,        \* localStorage['zkvault_blockchain'] (simulation ledger)
    verificationLogs,  \* localStorage['zkvault_verification_logs']
    nullifiers,        \* localStorage['zkvault_nullifiers'], as a set
    accepted,          \* history: the proofs verifyProof accepted and consumed
                       \* since the registry was last reset
    now,               \* Date.now(), in milliseconds
    draws,             \* number of calls that drew random values so far
    ret,               \* what the last completed call returned or threw
    pc,                \* per browsing context: position inside verifyProof
    loc                \* per browsing context: locals of the running verifyProof

vars == <<certificates, blocks, transactions, events, blockNumberItem,
          blockchain, verificationLogs, nullifiers, accepted, now, draws, ret,
          pc, loc>>

verifierVars == <<nullifiers, accepted>>

ledgerVars == <<certificates, blocks, transactions, events, blockNumberItem,
                blockchain, verificationLogs, draws>>

contractVars == <<certificates, blocks, transactions, events>>

callerVars == <<pc, loc>>

----------------------------------------------------------------------------
(* Bounds *)

MaxDraws == 4

MaxSharedDraws == 3

MaxHours == 25

MaxLogs == 1

MaxPageDraws == 3

MaxTabDraws == 3

\* calls that draw a random value, in the specification of the whole application
MaxAppDraws == 2

\* calls of generateProof, each drawing a salt
MaxProofDraws == 2

\* keys in the selectedDisclosures of a request
MaxSelected == 2

Fingerprints == {"F1", "F2"}

Callers == {"tab1", "tab2"}

----------------------------------------------------------------------------
(* Strings: a string is modelled by whether it starts with '0x', its      *)
(* length and its text (a tuple naming what it was built from).           *)

Str(text, n) == [pfx |-> FALSE, len |-> n, text |-> text]

Hex(text, n) == [pfx |-> TRUE, len |-> n + 2, text |-> text]

EmptyStr == Str(<<>>, 0)

One == Str(<<"1">>, 1)

Zero == Str(<<"0">>, 1)

startsWith0x(s) == s.pfx

\* a truthiness test that takes the empty string for a value
TruthyAlways(s) == TRUE

Truthy(s) == s.len > 0

\* a digest that is the same for every input
hashStringConstant(data) == Str(<<"sha256">>, 64)

\* SHA256(data).toString(Hex): 64 hex digits, one digest per input
hashString(data) == Str(<<"sha256", data>>, 64)

\* '0x' + s
Prefix0x(s) == [pfx |-> TRUE, len |-> s.len + 2, text |-> s.text]

JSONstringify(v) == Str(<<"json", v>>, 2)

HourMs == 60 * 60 * 1000

\* Array.prototype.findIndex / find: the first position passing the test,
\* 0 when there is none (the code's -1 / undefined)
FindIndex(list, Test(_)) ==
    IF \E i \in DOMAIN list : Test(list[i])
    THEN CHOOSE i \in DOMAIN list :
             Test(list[i]) /\ \A j \in 1..(i - 1) : ~Test(list[j])
    ELSE 0

\* What a call handed back: a returned value or a thrown Error
Result(op, fp, threw, success, valid, message, tx, id) ==
    [op |-> op, fp |-> fp, threw |-> threw, success |-> success,
     valid |-> valid, message |-> message, tx |-> tx, id |-> id]

NoTx == EmptyStr

NoId == EmptyStr

Actors == {"admin"}

Reasons == {"fraud"}

----------------------------------------------------------------------------
(* Contract ledger, src/src/App.tsx *)

ReadBlockNumber(item) == IF item = <<>> THEN 1 ELSE item[1]

\* an increment that leaves a number out
NextBlockNumberItemSkipping(item) == <<ReadBlockNumber(item) + 2>>

\* getNextBlockNumber: the item after the increment
NextBlockNumberItem(item) == <<ReadBlockNumber(item) + 1>>

generateTransactionHash(d) == Hex(<<"random32", d>>, 64)

generateBlockHash(blockNumber, txs, t) ==
    Prefix0x(hashString(<<"block_", blockNumber, txs, t>>))

generateCertificateId(t, d) == Str(<<"CERT_", t, d>>, 22)

ZeroHash == Hex(<<"zeros">>, 64)

ParentHashFirst(blks) ==
    IF Len(blks) > 0 THEN blks[1].hash ELSE ZeroHash

ParentHash(blks) ==
    IF Len(blks) > 0 THEN blks[Len(blks)].hash ELSE ZeroHash

\* a block mined without the transaction list it was given
mineBlockEmpty(blks, item, txs, t) ==
    [number |-> ReadBlockNumber(item),
     hash |-> generateBlockHash(ReadBlockNumber(item), txs, t),
     parentHash |-> ParentHash(blks),
     timestamp |-> t,
     transactions |-> <<>>]

\* the block mineBlock builds and appends
mineBlock(blks, item, txs, t) ==
    [number |-> ReadBlockNumber(item),
     hash |-> generateBlockHash(ReadBlockNumber(item), txs, t),
     parentHash |-> ParentHash(blks),
     timestamp |-> t,
     transactions |-> txs]

\* the transaction recordTransaction builds and appends
recordTransaction(from, method, args, blockNumber, eventIds, t, d) ==
    [hash |-> generateTransactionHash(d),
     from |-> from,
     to |-> "CertificateRegistry",
     blockNumber |-> blockNumber,
     timestamp |-> t,
     method |-> method,
     args |-> args,
     status |-> "success",
     events |-> eventIds]

\* the event numbered with the transaction's placeholder block number
ContractEventStale(name, tx, block, t, args) ==
    [eventName |-> name,
     transactionHash |-> tx.hash,
     blockNumber |-> tx.blockNumber,
     timestamp |-> t,
     logIndex |-> 0,
     args |-> args]

ContractEvent(name, tx, block, t, args) ==
    [eventName |-> name,
     transactionHash |-> tx.hash,
     blockNumber |-> block.number,
     timestamp |-> t,
     logIndex |-> 0,
     args |-> args]

\* the tail without mineBlock: the transaction and the event, no block
CommitWithoutBlock(from, method, txArgs, eventName, eventArgs) ==
    LET tx == recordTransaction(from, method, txArgs, 0, <<>>, now, draws)
    IN  /\ transactions' = Append(transactions, tx)
        /\ events' = Append(events, [eventName |-> eventName,
                                     transactionHash |-> tx.hash,
                                     blockNumber |-> 0,
                                     timestamp |-> now,
                                     logIndex |-> 0,
                                     args |-> eventArgs])
        /\ draws' = draws + 1
        /\ UNCHANGED <<blocks, blockNumberItem>>

\* an event log that holds the latest event only
emitEventLatest(log, event) == <<event>>

\* events.push(event) on the loaded log, then saveState
emitEvent(log, event) == Append(log, event)

\* one transaction, one block holding it, one event: the tail every
\* contract call shares
Commit(from, method, txArgs, eventName, eventArgs) ==
    LET tx == recordTransaction(from, method, txArgs, 0, <<>>, now, draws)
        block == mineBlock(blocks, blockNumberItem, <<tx.hash>>, now)
    IN  /\ transactions' = Append(transactions, tx)
        /\ blocks' = Append(blocks, block)
        /\ blockNumberItem' = NextBlockNumberItem(blockNumberItem)
        /\ events' = emitEvent(events, ContractEvent(eventName, tx, block, now, eventArgs))
        /\ draws' = draws + 1

IsActiveDuplicateAnyStatus(c, documentHash) ==
    c.documentHash = documentHash

IsActiveDuplicate(c, documentHash) ==
    c.documentHash = documentHash /\ c.status = "active"

\* a lookup that passes over revoked records
HasHashUnlessRevoked(c, documentHash) ==
    c.documentHash = documentHash /\ c.status # "revoked"

HasHash(c, documentHash) == c.documentHash = documentHash

----------------------------------------------------------------------------
(* Proofs, src/src/lib/zksnark/verifier.ts (prover part) *)

\* a missing sub-object (undefined / null)
Null == [null |-> TRUE]

Present(v) == v # Null

\* '0x' + hash.substring(0, 62)
\* a field element written without the '0x' in front
generateFieldElementBare(seed) == Str(<<"fe", seed>>, 62)

generateFieldElement(seed) == Hex(<<"fe", seed>>, 62)

\* '0x' + the SHA-256 chain over the inputs
generateCommitment(inputs) == Prefix0x(hashString(<<"chain", inputs>>))

generateNullifier(documentHash, salt) ==
    Prefix0x(hashString(<<documentHash, salt, "nullifier">>))

\* new Date(...).toISOString() of a time, and a string Date cannot parse
ISO(ms) == [kind |-> "iso", ms |-> ms]

\* a disclosed attribute: key, label, value and the field element that
\* stands for its proof
Attribute(key, keyLength, label, labelLength, value, seed) ==
    [key |-> Str(<<key>>, keyLength),
     label |-> Str(<<label>>, labelLength),
     value |-> value,
     proofElement |-> generateFieldElement(seed)]

AgeOver18 ==
    [key |-> Str(<<"ageOver18">>, 9),
     label |-> Str(<<"Age Over 18">>, 11),
     value |-> TRUE,
     proofElement |-> generateFieldElement("age_verification_18")]

\* the case labels of the switch in buildDisclosedAttributes
SwitchCases ==
    {"ageOver18", "citizenship", "identityVerified", "degreeVerified",
     "graduationYear", "institutionAccredited", "gradeAboveThreshold",
     "employmentVerified", "licenseActive", "certificationValid",
     "vaccinationVerified", "healthCertificateValid",
     "documentAuthentic", "issuerVerified", "notExpired"}

Verified == Str(<<"Verified">>, 8)

NaN == [nan |-> TRUE]

YearMs == 365 * 24 * HourMs

\* new Date(gradDate).getFullYear(); NaN for a date that does not parse
getFullYear(date) ==
    IF date.kind = "iso" THEN 1970 + (date.ms \div YearMs) ELSE NaN

\* the attribute one case of the switch pushes
SwitchCase(disclosure, documentData) ==
    CASE disclosure = "ageOver18" -> AgeOver18
      [] disclosure = "citizenship" ->
           Attribute("citizenship", 11, "Citizenship", 11,
                     IF Truthy(documentData.nationality)
                     THEN documentData.nationality ELSE Verified,
                     "citizenship_proof")
      [] disclosure = "graduationYear" ->
           LET year == IF documentData.graduationDate # EmptyStr
                       THEN getFullYear(documentData.graduationDate)
                       ELSE Verified
           IN  Attribute("graduationYear", 14, "Graduation Year", 15, year,
                         <<"graduation_year_", year>>)
      [] disclosure = "identityVerified" ->
           Attribute("identityVerified", 16, "Identity Verified", 17, TRUE,
                     "identity_verification")
      [] disclosure = "degreeVerified" ->
           Attribute("degreeVerified", 14, "Degree/Credential Verified", 26, TRUE,
                     "degree_verification")
      [] disclosure = "institutionAccredited" ->
           Attribute("institutionAccredited", 21, "Institution Accredited", 22, TRUE,
                     "institution_accreditation")
      [] disclosure = "gradeAboveThreshold" ->
           Attribute("gradeAboveThreshold", 19, "Grade Above Threshold", 21, TRUE,
                     "grade_threshold")
      [] disclosure = "employmentVerified" ->
           Attribute("employmentVerified", 18, "Employment Verified", 19, TRUE,
                     "employment_verification")
      [] disclosure = "licenseActive" ->
           Attribute("licenseActive", 13, "License Active", 14, TRUE,
                     "license_active")
      [] disclosure = "certificationValid" ->
           Attribute("certificationValid", 18, "Certification Valid", 19, TRUE,
                     "certification_valid")
      [] disclosure = "vaccinationVerified" ->
           Attribute("vaccinationVerified", 19, "Vaccination Verified", 20, TRUE,
                     "vaccination_verification")
      [] disclosure = "healthCertificateValid" ->
           Attribute("healthCertificateValid", 22, "Health Certificate Valid", 24, TRUE,
                     "health_certificate")
      [] disclosure = "documentAuthentic" ->
           Attribute("documentAuthentic", 17, "Document Authentic", 18, TRUE,
                     "document_authenticity")
      [] disclosure = "issuerVerified" ->
           Attribute("issuerVerified", 14, "Issuer Verified", 15, TRUE,
                     "issuer_verification")
      [] disclosure = "notExpired" ->
           Attribute("notExpired", 10, "Not Expired", 11, TRUE,
                     "expiry_check")

\* a switch that pushes a placeholder for a key it has no case for
buildDisclosedAttributesPadded(documentData, documentCategory, selectedDisclosures) ==
    [i \in DOMAIN selectedDisclosures |->
        IF selectedDisclosures[i] \in SwitchCases
        THEN SwitchCase(selectedDisclosures[i], documentData)
        ELSE Attribute(selectedDisclosures[i], 7, "Unknown", 7, FALSE, "unknown")]

\* for (const disclosure of selectedDisclosures) switch (disclosure): one
\* push per selection that has a case, none for the others
buildDisclosedAttributes(documentData, documentCategory, selectedDisclosures) ==
    LET cased == SelectSeq(selectedDisclosures, LAMBDA d : d \in SwitchCases)
    IN  [i \in DOMAIN cased |-> SwitchCase(cased[i], documentData)]

\* src/src/lib/zksnark/circuits.ts
getCircuitForCategory(category) ==
    CASE category \in {"educational", "professional"} -> "credential_verification"
      [] category = "identity" -> "identity_verification"
      [] OTHER -> "document_verification"

\* the ZKProof generateProof assembles from the parts of a request, a salt
\* and the time of its stamp
AssembleProof(request, circuitType, salt, disclosures, t) ==
    LET commitment == generateCommitment(<<request.documentHash, request.holderName,
                                           request.holderDOB,
                                           JSONstringify(request.documentData), salt>>)
        nullifier == generateNullifier(request.documentHash, salt)
    IN  [proof |->
            [pi_a |-> <<generateFieldElement(<<commitment, "a1">>),
                        generateFieldElement(<<commitment, "a2">>), One>>,
             pi_b |-> << <<generateFieldElement(<<nullifier, "b11">>),
                           generateFieldElement(<<nullifier, "b12">>)>>,
                         <<generateFieldElement(<<nullifier, "b21">>),
                           generateFieldElement(<<nullifier, "b22">>)>>,
                         <<One, Zero>> >>,
             pi_c |-> <<generateFieldElement(<<salt, "c1">>),
                        generateFieldElement(<<salt, "c2">>), One>>,
             protocol |-> "groth16",
             curve |-> "bn128"],
         publicSignals |->
            <<commitment, nullifier>>
                \o [i \in DOMAIN disclosures |-> disclosures[i].proofElement],
         metadata |->
            [circuitType |-> circuitType,
             generatedAt |-> ISO(t),
             version |-> "2.0.0",
             disclosures |-> disclosures]]

\* documentData without nationality and graduationDate
NoData == [nationality |-> EmptyStr, graduationDate |-> EmptyStr]

\* the proof of an identity document without data, with given disclosures
BuildProof(documentHash, salt, disclosures, t) ==
    AssembleProof([documentHash |-> documentHash, holderName |-> "holder",
                   holderDOB |-> "", documentData |-> NoData],
                  getCircuitForCategory("identity"), salt, disclosures, t)

ProofA == BuildProof("F1", "salt1", <<AgeOver18>>, 0)

ProofB == BuildProof("F2", "salt2", <<>>, 0)

\* ProofA with the identity element of pi_a overwritten
BadPairingProof ==
    [ProofA EXCEPT !.proof.pi_a = <<ProofA.proof.pi_a[1], ProofA.proof.pi_a[2], Zero>>]

\* ProofB with a commitment of '0x' and 8 digits
ShortCommitmentProof ==
    [ProofB EXCEPT !.publicSignals[1] = Hex(<<"short">>, 8)]

\* ProofA with a disclosure whose proofElement lacks the 0x prefix
BadDisclosureProof ==
    [ProofA EXCEPT !.metadata.disclosures =
        <<[AgeOver18 EXCEPT !.proofElement = Str(<<"nohex">>, 10)]>>]

\* ProofB without its metadata
NoMetadataProof == [ProofB EXCEPT !.metadata = Null]

\* ProofB with a nullifier that lacks the 0x prefix
BadSignalsProof ==
    [ProofB EXCEPT !.publicSignals[2] = Str(<<"nullifier without prefix">>, 64)]

\* ProofA with only two points in pi_b
ShortPiBProof ==
    [ProofA EXCEPT !.proof.pi_b = <<ProofA.proof.pi_b[1], ProofA.proof.pi_b[2]>>]

\* a generatedAt that new Date() cannot parse: getTime() is NaN
NotADate == [kind |-> "invalid", ms |-> 0]

\* ProofB with an unparsable generatedAt
InvalidDateProof == [ProofB EXCEPT !.metadata.generatedAt = NotADate]

\* a public signal that is a number, not a string
NumberSignal == [number |-> 7]

\* ProofB with a number where its nullifier should be
NumberSignalProof == [ProofB EXCEPT !.publicSignals[2] = NumberSignal]

Proofs == {ProofA, ProofB, BadPairingProof, ShortCommitmentProof,
           BadDisclosureProof, NoMetadataProof, BadSignalsProof, ShortPiBProof,
           InvalidDateProof, NumberSignalProof}

\* the proofs certificates are issued with
IssuedProofs == {ProofA}

\* serializeProof
serializeProof(proof) == JSONstringify(proof)

\* what a verifier may paste as proof JSON: nothing, or a serialized proof
ProofJsons == {EmptyStr} \cup {serializeProof(p) : p \in {ProofA, ProofB}}

----------------------------------------------------------------------------
(* Contract ledger operations, src/src/App.tsx *)

\* a status change that also resets the record's block number
SetStatusUnmined(list, index, status, t) ==
    [list EXCEPT ![index] =
        [@ EXCEPT !.status = status, !.updatedAt = t, !.blockNumber = 0]]

SetStatus(list, index, status, t) ==
    [list EXCEPT ![index] = [@ EXCEPT !.status = status, !.updatedAt = t]]

CanRevoke(status) == status # "revoked"

CanSuspendUnlessRevoked(status) == status # "revoked"

CanSuspend(status) == status = "active"

CanReinstateUnlessActive(status) == status # "active"

CanReinstate(status) == status = "suspended"

\* throw new Error('REVERT: ...') after the block number was taken
RevertAfterTakingNumber(op, documentHash, message, id) ==
    /\ ret' = Result(op, documentHash, TRUE, FALSE, FALSE, message, NoTx, id)
    /\ blockNumberItem' = NextBlockNumberItem(blockNumberItem)
    /\ UNCHANGED <<contractVars, blockchain, verificationLogs, draws, verifierVars,
                   now, callerVars>>

\* throw new Error('REVERT: ...'): the call ends before its first write
Revert(op, documentHash, message, id) ==
    /\ ret' = Result(op, documentHash, TRUE, FALSE, FALSE, message, NoTx, id)
    /\ UNCHANGED <<ledgerVars, verifierVars, now, callerVars>>

\* the certificate issueCertificate stores, with the block number and the
\* transaction hash filled in
NewCertificate(documentHash, proof, issuer, certificateId, tx, block, t) ==
    [id |-> certificateId,
     documentHash |-> documentHash,
     ipfsCid |-> "cid",
     proofHash |-> hashString(JSONstringify(proof)),
     proof |-> proof,
     issuer |-> issuer,
     holder |-> "holder",
     documentType |-> "type",
     documentCategory |-> "identity",
     metadata |-> "{}",
     status |-> "active",
     createdAt |-> t,
     updatedAt |-> t,
     blockNumber |-> block.number,
     transactionHash |-> tx.hash]

issueCertificate(documentHash, proof, issuer) ==
    LET existing == FindIndex(certificates, LAMBDA c : IsActiveDuplicate(c, documentHash))
        certificateId == generateCertificateId(now, draws)
        tx == recordTransaction(issuer, "issueCertificate",
                                [documentHash |-> documentHash], 0, <<>>, now, draws)
        block == mineBlock(blocks, blockNumberItem, <<tx.hash>>, now)
        certificate == NewCertificate(documentHash, proof, issuer, certificateId,
                                      tx, block, now)
    IN  IF existing # 0
        THEN Revert("issueCertificate", documentHash,
                    "REVERT: Certificate with this hash already exists", NoId)
        ELSE /\ Commit(issuer, "issueCertificate", [documentHash |-> documentHash],
                       "CertificateIssued",
                       [certificateId |-> certificateId, documentHash |-> documentHash])
             /\ certificates' = Append(certificates, certificate)
             /\ ret' = Result("issueCertificate", documentHash, FALSE, TRUE, FALSE,
                              "", tx.hash, certificateId)
             /\ UNCHANGED <<blockchain, verificationLogs, verifierVars, now, callerVars>>

\* what verifyCertificateOnChain finds out before it records the attempt
ChainVerification(documentHash, proofJson) ==
    LET index == FindIndex(certificates, LAMBDA c : HasHash(c, documentHash))
        found == index # 0
        status == IF found THEN certificates[index].status ELSE "none"
        proofValid == /\ found
                      /\ status = "active"
                      /\ Truthy(proofJson)
                      /\ hashString(proofJson) = certificates[index].proofHash
        valid == found /\ status = "active" /\ (Truthy(proofJson) => proofValid)
        message ==
            IF ~found THEN "Certificate not found in registry"
            ELSE IF status = "revoked" THEN "Certificate has been revoked"
            ELSE IF status = "suspended" THEN "Certificate is currently suspended"
            ELSE IF ~Truthy(proofJson)
                 THEN "Certificate exists and is active (no proof provided)"
            ELSE IF proofValid THEN "Certificate verified successfully"
            ELSE "Proof verification failed"
        certificateId == IF found THEN certificates[index].id ELSE Str(<<"NOT_FOUND">>, 9)
    IN  [valid |-> valid, message |-> message, proofValid |-> proofValid,
         certificateId |-> certificateId]

\* an attempt recorded without the id of the certificate it found
RecordVerificationAnonymous(documentHash, proofJson, verifier, v) ==
    Commit(verifier, "verifyCertificate",
           [documentHash |-> documentHash, hasProof |-> Truthy(proofJson)],
           "CertificateVerified",
           [certificateId |-> Str(<<"NOT_FOUND">>, 9), verifier |-> verifier,
            result |-> v.valid, proofValid |-> v.proofValid])

\* the transaction, block and CertificateVerified event of an attempt
RecordVerification(documentHash, proofJson, verifier, v) ==
    Commit(verifier, "verifyCertificate",
           [documentHash |-> documentHash, hasProof |-> Truthy(proofJson)],
           "CertificateVerified",
           [certificateId |-> v.certificateId, verifier |-> verifier,
            result |-> v.valid, proofValid |-> v.proofValid])

verifyCertificateOnChain(documentHash, proofJson, verifier) ==
    LET v == ChainVerification(documentHash, proofJson)
    IN  /\ RecordVerification(documentHash, proofJson, verifier, v)
        /\ ret' = Result("verifyCertificateOnChain", documentHash, FALSE, TRUE, v.valid,
                         v.message, generateTransactionHash(draws), v.certificateId)
        /\ UNCHANGED <<certificates, blockchain, verificationLogs, verifierVars, now,
                       callerVars>>

revokeCertificateOnChain(documentHash, revokedBy, reason) ==
    LET index == FindIndex(certificates, LAMBDA c : HasHash(c, documentHash))
        certificate == certificates[index]
    IN  IF index = 0
        THEN Revert("revokeCertificateOnChain", documentHash,
                    "REVERT: Certificate not found", NoId)
        ELSE IF ~CanRevoke(certificate.status)
        THEN Revert("revokeCertificateOnChain", documentHash,
                    "REVERT: Certificate already revoked", certificate.id)
        ELSE /\ certificates' = SetStatus(certificates, index, "revoked", now)
             /\ Commit(revokedBy, "revokeCertificate",
                       [documentHash |-> documentHash, reason |-> reason],
                       "CertificateRevoked",
                       [certificateId |-> certificate.id, revokedBy |-> revokedBy,
                        reason |-> reason])
             /\ ret' = Result("revokeCertificateOnChain", documentHash, FALSE, TRUE, FALSE,
                              "Certificate revoked successfully",
                              generateTransactionHash(draws), certificate.id)
             /\ UNCHANGED <<blockchain, verificationLogs, verifierVars, now, callerVars>>

suspendCertificateOnChain(documentHash, suspendedBy, reason) ==
    LET index == FindIndex(certificates, LAMBDA c : HasHash(c, documentHash))
        certificate == certificates[index]
    IN  IF index = 0
        THEN Revert("suspendCertificateOnChain", documentHash,
                    "REVERT: Certificate not found", NoId)
        ELSE IF ~CanSuspend(certificate.status)
        THEN Revert("suspendCertificateOnChain", documentHash,
                    "REVERT: Cannot suspend certificate with status: " \o certificate.status,
                    certificate.id)
        ELSE /\ certificates' = SetStatus(certificates, index, "suspended", now)
             /\ Commit(suspendedBy, "suspendCertificate",
                       [documentHash |-> documentHash, reason |-> reason],
                       "CertificateSuspended",
                       [certificateId |-> certificate.id, suspendedBy |-> suspendedBy,
                        reason |-> reason])
             /\ ret' = Result("suspendCertificateOnChain", documentHash, FALSE, TRUE, FALSE,
                              "Certificate suspended successfully",
                              generateTransactionHash(draws), certificate.id)
             /\ UNCHANGED <<blockchain, verificationLogs, verifierVars, now, callerVars>>

reinstateCertificateOnChain(documentHash, reinstatedBy, reason) ==
    LET index == FindIndex(certificates, LAMBDA c : HasHash(c, documentHash))
        certificate == certificates[index]
    IN  IF index = 0
        THEN Revert("reinstateCertificateOnChain", documentHash,
                    "REVERT: Certificate not found", NoId)
        ELSE IF ~CanReinstate(certificate.status)
        THEN Revert("reinstateCertificateOnChain", documentHash,
                    "REVERT: Can only reinstate suspended certificates", certificate.id)
        ELSE /\ certificates' = SetStatus(certificates, index, "active", now)
             /\ Commit(reinstatedBy, "reinstateCertificate",
                       [documentHash |-> documentHash, reason |-> reason],
                       "CertificateReinstated",
                       [certificateId |-> certificate.id, reinstatedBy |-> reinstatedBy,
                        reason |-> reason])
             /\ ret' = Result("reinstateCertificateOnChain", documentHash, FALSE, TRUE, FALSE,
                              "Certificate reinstated successfully",
                              generateTransactionHash(draws), certificate.id)
             /\ UNCHANGED <<blockchain, verificationLogs, verifierVars, now, callerVars>>

\* the keys of the contract ledger together with the key of the registry
STORAGE_KEYS_WITH_REGISTRY ==
    {"zkvault_certificates", "zkvault_blocks", "zkvault_transactions",
     "zkvault_events", "zkvault_block_number", "zkvault_nullifiers"}

STORAGE_KEYS ==
    {"zkvault_certificates", "zkvault_blocks", "zkvault_transactions",
     "zkvault_events", "zkvault_block_number"}

\* what a key holds after localStorage.removeItem on each of the keys
AfterRemoval(key, keys, value, absent) ==
    IF key \in keys THEN absent ELSE value

\* removes every key of STORAGE_KEYS
resetBlockchainState ==
    /\ certificates' = AfterRemoval("zkvault_certificates", STORAGE_KEYS, certificates, <<>>)
    /\ blocks' = AfterRemoval("zkvault_blocks", STORAGE_KEYS, blocks, <<>>)
    /\ transactions' = AfterRemoval("zkvault_transactions", STORAGE_KEYS, transactions, <<>>)
    /\ events' = AfterRemoval("zkvault_events", STORAGE_KEYS, events, <<>>)
    /\ blockNumberItem' = AfterRemoval("zkvault_block_number", STORAGE_KEYS,
                                       blockNumberItem, <<>>)
    /\ blockchain' = AfterRemoval("zkvault_blockchain", STORAGE_KEYS, blockchain, <<>>)
    /\ verificationLogs' = AfterRemoval("zkvault_verification_logs", STORAGE_KEYS,
                                        verificationLogs, <<>>)
    /\ nullifiers' = AfterRemoval("zkvault_nullifiers", STORAGE_KEYS, nullifiers, {})
    /\ ret' = Result("resetBlockchainState", "", FALSE, TRUE, FALSE, "", NoTx, NoId)
    /\ UNCHANGED <<draws, accepted, now, callerVars>>

WithStatus(status) ==
    Cardinality({i \in DOMAIN certificates : certificates[i].status = status})

getBlockchainStats ==
    [totalCertificates |-> Len(certificates),
     activeCertificates |-> WithStatus("active"),
     revokedCertificates |-> WithStatus("revoked"),
     suspendedCertificates |-> WithStatus("suspended"),
     totalBlocks |-> Len(blocks),
     totalTransactions |-> Len(transactions),
     totalEvents |-> Len(events),
     currentBlockNumber |-> ReadBlockNumber(blockNumberItem)]

----------------------------------------------------------------------------
(* Simulation ledger, src/src/lib/simulation/blockchain.ts *)

\* '0x' + hashString(Math.random() digits + Date.now()).substring(0, 64)
SimGenerateTransactionHash(d, t) == Prefix0x(hashString(<<"mathrandom", d, t>>))

generateRecordId(t, d) == Str(<<"CERT_", t, "mathrandom", d>>, 20)

SimIsActiveDuplicate(r, hash) == r.hash = hash /\ r.status = "active"

SimHasHash(r, hash) == r.hash = hash

\* a history entry that records the new status as the old one as well
StatusChangeFromTarget(from, to, changedBy, reason, t, transactionHash) ==
    [from |-> to, to |-> to, changedBy |-> changedBy, reason |-> reason,
     timestamp |-> t, transactionHash |-> transactionHash]

StatusChange(from, to, changedBy, reason, t, transactionHash) ==
    [from |-> from, to |-> to, changedBy |-> changedBy, reason |-> reason,
     timestamp |-> t, transactionHash |-> transactionHash]

\* a status change that starts the history over with the new entry
SimSetStatusReplacing(list, index, status, by, reason, t, transactionHash) ==
    [list EXCEPT ![index] =
        [@ EXCEPT !.status = status,
                  !.statusHistory =
                      <<StatusChange(list[index].status, status, by, reason,
                                     t, transactionHash)>>]]

\* a status change that adds the history entry and leaves the status field
SimSetStatusHistoryOnly(list, index, status, by, reason, t, transactionHash) ==
    [list EXCEPT ![index] =
        [@ EXCEPT !.statusHistory =
                      Append(@, StatusChange(list[index].status, status, by, reason,
                                             t, transactionHash))]]

\* {...record, status, statusHistory: [...record.statusHistory, change]}
SimSetStatus(list, index, status, by, reason, t, transactionHash) ==
    [list EXCEPT ![index] =
        [@ EXCEPT !.status = status,
                  !.statusHistory =
                      Append(@, StatusChange(list[index].status, status, by, reason,
                                             t, transactionHash))]]

SimCanRevoke(status) == status # "revoked"

SimCanSuspendUnlessRevoked(status) == status # "revoked"

SimCanSuspend(status) == status = "active"

SimCanReinstateUnlessActive(status) == status # "active"

SimCanReinstate(status) == status = "suspended"

storeCertificate(hash, proof, issuer) ==
    LET existing == FindIndex(blockchain, LAMBDA r : SimIsActiveDuplicate(r, hash))
        transactionHash == SimGenerateTransactionHash(draws, now)
        record ==
            [id |-> generateRecordId(now, draws),
             hash |-> hash,
             cid |-> "cid",
             proof |-> proof,
             proofHash |-> hashString(JSONstringify(proof)),
             issuer |-> issuer,
             issuedTo |-> "holder",
             certificateType |-> "type",
             metadata |-> "{}",
             transactionHash |-> transactionHash,
             blockNumber |-> ReadBlockNumber(blockNumberItem),
             timestamp |-> now,
             status |-> "active",
             statusHistory |->
                 <<StatusChange("none", "active", issuer, "Initial issuance", now,
                                transactionHash)>>]
    IN  IF existing # 0
        THEN /\ ret' = Result("storeCertificate", hash, TRUE, FALSE, FALSE,
                              "Certificate with this hash already exists", NoTx, NoId)
             /\ UNCHANGED <<ledgerVars, verifierVars, now, callerVars>>
        ELSE /\ blockNumberItem' = NextBlockNumberItem(blockNumberItem)
             /\ blockchain' = Append(blockchain, record)
             /\ draws' = draws + 1
             /\ ret' = Result("storeCertificate", hash, FALSE, TRUE, FALSE, "",
                              transactionHash, record.id)
             /\ UNCHANGED <<contractVars, verificationLogs, verifierVars, now,
                            callerVars>>

\* what verifyCertificate decides before it logs the attempt
HashVerification(hash, proofJson) ==
    LET index == FindIndex(blockchain, LAMBDA r : SimHasHash(r, hash))
        found == index # 0
        status == IF found THEN blockchain[index].status ELSE "none"
        matches == hashString(proofJson) = blockchain[index].proofHash
        valid == found /\ status = "active" /\ (Truthy(proofJson) => matches)
        result ==
            IF ~found THEN "not_found"
            ELSE IF status = "revoked" THEN "revoked"
            ELSE IF status = "suspended" THEN "invalid"
            ELSE IF valid THEN "valid" ELSE "invalid"
        message ==
            IF ~found THEN "Certificate not found in registry"
            ELSE IF status = "revoked" THEN "Certificate has been revoked"
            ELSE IF status = "suspended" THEN "Certificate is currently suspended"
            ELSE IF ~Truthy(proofJson)
                 THEN "Certificate hash found and active (no proof provided)"
            ELSE IF matches THEN "Certificate is valid and active"
            ELSE "Proof does not match stored certificate"
    IN  [valid |-> valid, result |-> result, message |-> message,
         id |-> IF found THEN blockchain[index].id ELSE NoId]

verifyCertificate(hash, proofJson, verifier) ==
    LET v == HashVerification(hash, proofJson)
        log == [id |-> Str(<<"VER_", now>>, 12),
                certificateHash |-> hash,
                verifier |-> verifier,
                timestamp |-> now,
                result |-> v.result,
                details |-> v.message]
    IN  /\ verificationLogs' = Append(verificationLogs, log)
        /\ ret' = Result("verifyCertificate", hash, FALSE, TRUE, v.valid, v.message,
                         NoTx, v.id)
        /\ UNCHANGED <<contractVars, blockNumberItem, blockchain, draws, verifierVars,
                       now, callerVars>>

revokeCertificate(hash, revokedBy, reason) ==
    LET recordIndex == FindIndex(blockchain, LAMBDA r : SimHasHash(r, hash))
        record == blockchain[recordIndex]
        transactionHash == SimGenerateTransactionHash(draws, now)
    IN  IF recordIndex = 0
        THEN /\ ret' = Result("revokeCertificate", hash, FALSE, FALSE, FALSE,
                              "Certificate not found", NoTx, NoId)
             /\ UNCHANGED <<ledgerVars, verifierVars, now, callerVars>>
        ELSE IF ~SimCanRevoke(record.status)
        THEN /\ ret' = Result("revokeCertificate", hash, FALSE, FALSE, FALSE,
                              "Certificate already revoked",
                              NoTx, record.id)
             /\ UNCHANGED <<ledgerVars, verifierVars, now, callerVars>>
        ELSE /\ blockchain' = SimSetStatus(blockchain, recordIndex, "revoked",
                                           revokedBy, reason, now, transactionHash)
             /\ draws' = draws + 1
             /\ ret' = Result("revokeCertificate", hash, FALSE, TRUE, FALSE,
                              "Certificate revoked successfully",
                              transactionHash, record.id)
             /\ UNCHANGED <<contractVars, blockNumberItem, verificationLogs,
                            verifierVars, now, callerVars>>

suspendCertificate(hash, suspendedBy, reason) ==
    LET recordIndex == FindIndex(blockchain, LAMBDA r : SimHasHash(r, hash))
        record == blockchain[recordIndex]
        transactionHash == SimGenerateTransactionHash(draws, now)
    IN  IF recordIndex = 0
        THEN /\ ret' = Result("suspendCertificate", hash, FALSE, FALSE, FALSE,
                              "Certificate not found", NoTx, NoId)
             /\ UNCHANGED <<ledgerVars, verifierVars, now, callerVars>>
        ELSE IF ~SimCanSuspend(record.status)
        THEN /\ ret' = Result("suspendCertificate", hash, FALSE, FALSE, FALSE,
                              "Cannot suspend certificate with status: " \o record.status,
                              NoTx, record.id)
             /\ UNCHANGED <<ledgerVars, verifierVars, now, callerVars>>
        ELSE /\ blockchain' = SimSetStatus(blockchain, recordIndex, "suspended",
                                           suspendedBy, reason, now, transactionHash)
             /\ draws' = draws + 1
             /\ ret' = Result("suspendCertificate", hash, FALSE, TRUE, FALSE,
                              "Certificate suspended successfully",
                              transactionHash, record.id)
             /\ UNCHANGED <<contractVars, blockNumberItem, verificationLogs,
                            verifierVars, now, callerVars>>

reinstateCertificate(hash, reinstatedBy, reason) ==
    LET recordIndex == FindIndex(blockchain, LAMBDA r : SimHasHash(r, hash))
        record == blockchain[recordIndex]
        transactionHash == SimGenerateTransactionHash(draws, now)
    IN  IF recordIndex = 0
        THEN /\ ret' = Result("reinstateCertificate", hash, FALSE, FALSE, FALSE,
                              "Certificate not found", NoTx, NoId)
             /\ UNCHANGED <<ledgerVars, verifierVars, now, callerVars>>
        ELSE IF ~SimCanReinstate(record.status)
        THEN /\ ret' = Result("reinstateCertificate", hash, FALSE, FALSE, FALSE,
                              "Can only reinstate suspended certificates",
                              NoTx, record.id)
             /\ UNCHANGED <<ledgerVars, verifierVars, now, callerVars>>
        ELSE /\ blockchain' = SimSetStatus(blockchain, recordIndex, "active",
                                           reinstatedBy, reason, now, transactionHash)
             /\ draws' = draws + 1
             /\ ret' = Result("reinstateCertificate", hash, FALSE, TRUE, FALSE,
                              "Certificate reinstated successfully",
                              transactionHash, record.id)
             /\ UNCHANGED <<contractVars, blockNumberItem, verificationLogs,
                            verifierVars, now, callerVars>>

\* removes the records, the logs and the block number key
resetBlockchain ==
    /\ blockchain' = <<>>
    /\ verificationLogs' = <<>>
    /\ blockNumberItem' = <<>>
    /\ ret' = Result("resetBlockchain", "", FALSE, TRUE, FALSE, "", NoTx, NoId)
    /\ UNCHANGED <<contractVars, draws, verifierVars, now, callerVars>>

----------------------------------------------------------------------------
(* The state after a page load with empty localStorage *)

NoResult == Result("none", "", FALSE, FALSE, FALSE, "", NoTx, NoId)

Init ==
    /\ certificates = <<>>
    /\ blocks = <<>>
    /\ transactions = <<>>
    /\ events = <<>>
    /\ blockNumberItem = <<>>
    /\ blockchain = <<>>
    /\ verificationLogs = <<>>
    /\ nullifiers = {}
    /\ accepted = {}
    /\ now = 0
    /\ draws = 0
    /\ ret = NoResult
    /\ pc = [c \in Callers |-> "idle"]
    /\ loc = [c \in Callers |-> Null]

----------------------------------------------------------------------------
(* Proof verification, src/src/lib/zksnark/verifier.ts *)

isNullifierUsed(registry, nullifier) == nullifier \in registry

\* saveNullifier that forgets to write the registry back
saveNullifierDropped(registry, nullifier) == registry

\* saveNullifier that writes the nullifier alone, without loading first
saveNullifierAlone(registry, nullifier) == {nullifier}

\* a save that takes out a nullifier it finds in the registry
saveNullifierToggling(registry, nullifier) ==
    IF nullifier \in registry
    THEN registry \ {nullifier}
    ELSE registry \cup {nullifier}

\* saveNullifier on the registry it loaded: add, then write back
saveNullifier(registry, nullifier) == registry \cup {nullifier}

verifyPointFormat(point, expectedLength) ==
    /\ Len(point) = expectedLength
    /\ \A i \in DOMAIN point :
           startsWith0x(point[i]) \/ point[i] = One \/ point[i] = Zero

\* the checks of simulatePairingCheck that come before it indexes pi_b[2]
PairingShape(pr) ==
    /\ verifyPointFormat(pr.pi_a, 3)
    /\ \A i \in DOMAIN pr.pi_b : verifyPointFormat(pr.pi_b[i], 2)
    /\ verifyPointFormat(pr.pi_c, 3)
    /\ pr.protocol = "groth16" /\ pr.curve = "bn128"
    /\ pr.pi_a[3] = One
    /\ pr.pi_c[3] = One

\* pi_b[2] is undefined: reading pi_b[2][0] throws a TypeError
PairingThrows(pr) == PairingShape(pr) /\ Len(pr.pi_b) < 3

simulatePairingCheck(pr) ==
    /\ PairingShape(pr)
    /\ pr.pi_b[3][1] = One /\ pr.pi_b[3][2] = Zero

IsString(v) == "pfx" \in DOMAIN v

\* commitment.startsWith or nullifier.startsWith is not a function: the
\* nullifier is only looked at when the commitment starts with '0x'
SignalsThrow(publicSignals) ==
    /\ Len(publicSignals) >= 2
    /\ \/ ~IsString(publicSignals[1])
       \/ startsWith0x(publicSignals[1]) /\ ~IsString(publicSignals[2])

verifyPublicSignals(publicSignals) ==
    /\ Len(publicSignals) >= 2
    /\ startsWith0x(publicSignals[1])
    /\ startsWith0x(publicSignals[2])

CommitmentValid(commitment) == startsWith0x(commitment) /\ commitment.len >= 64

DisclosuresValid(disclosures) ==
    \A i \in DOMAIN disclosures :
        /\ Truthy(disclosures[i].key)
        /\ Truthy(disclosures[i].label)
        /\ Truthy(disclosures[i].proofElement)
        /\ startsWith0x(disclosures[i].proofElement)

maxAge == 24 * 60 * 60 * 1000

\* Date.now() - new Date(generatedAt).getTime() > maxAge; an unparsable
\* date gives NaN, and NaN > maxAge is false
Expired(generatedAt, t) == generatedAt.kind = "iso" /\ t - generatedAt.ms > maxAge

NullifierOf(proof) == proof.publicSignals[2]

\* the checks with the age of the proof looked at before the registry
StageAgeBeforeRegistry(proof, registry, t) ==
    IF ~(Present(proof.proof) /\ Present(proof.publicSignals) /\ Present(proof.metadata))
        THEN "structure"
    ELSE IF PairingThrows(proof.proof) THEN "error"
    ELSE IF ~simulatePairingCheck(proof.proof) THEN "pairing"
    ELSE IF SignalsThrow(proof.publicSignals) THEN "signalsError"
    ELSE IF ~verifyPublicSignals(proof.publicSignals) THEN "signals"
    ELSE IF Expired(proof.metadata.generatedAt, t) THEN "expired"
    ELSE IF isNullifierUsed(registry, NullifierOf(proof)) THEN "nullifier"
    ELSE IF ~CommitmentValid(proof.publicSignals[1]) THEN "commitment"
    ELSE IF ~DisclosuresValid(proof.metadata.disclosures) THEN "disclosures"
    ELSE "ok"

\* the first check of verifyProof that does not pass, "ok" if all do
Stage(proof, registry, t) ==
    IF ~(Present(proof.proof) /\ Present(proof.publicSignals) /\ Present(proof.metadata))
        THEN "structure"
    ELSE IF PairingThrows(proof.proof) THEN "error"
    ELSE IF ~simulatePairingCheck(proof.proof) THEN "pairing"
    ELSE IF SignalsThrow(proof.publicSignals) THEN "signalsError"
    ELSE IF ~verifyPublicSignals(proof.publicSignals) THEN "signals"
    ELSE IF isNullifierUsed(registry, NullifierOf(proof)) THEN "nullifier"
    ELSE IF ~CommitmentValid(proof.publicSignals[1]) THEN "commitment"
    ELSE IF ~DisclosuresValid(proof.metadata.disclosures) THEN "disclosures"
    ELSE IF Expired(proof.metadata.generatedAt, t) THEN "expired"
    ELSE "ok"

VerificationResult(valid, message, proofValid, commitmentValid, nullifierUnique,
                   disclosuresVerified, disclosedAttributes) ==
    [valid |-> valid, message |-> message,
     details |-> [proofValid |-> proofValid, commitmentValid |-> commitmentValid,
                  nullifierUnique |-> nullifierUnique,
                  disclosuresVerified |-> disclosuresVerified],
     disclosedAttributes |-> disclosedAttributes]

NullifierReuseMessage == "Proof has already been used (nullifier reuse detected)"

\* the VerificationResult verifyProof returns when it stops at a stage
ResultAt(stage, proof) ==
    CASE stage = "structure" ->
           VerificationResult(FALSE, "Invalid proof structure",
                              FALSE, FALSE, FALSE, FALSE, Null)
      [] stage = "error" ->
           VerificationResult(FALSE, "Verification error: TypeError",
                              FALSE, FALSE, FALSE, FALSE, Null)
      [] stage = "signalsError" ->
           VerificationResult(FALSE, "Verification error: startsWith is not a function",
                              FALSE, FALSE, FALSE, FALSE, Null)
      [] stage = "pairing" ->
           VerificationResult(FALSE, "Pairing check failed - proof is invalid",
                              FALSE, FALSE, FALSE, FALSE, Null)
      [] stage = "signals" ->
           VerificationResult(FALSE, "Public signals verification failed",
                              TRUE, FALSE, FALSE, FALSE, Null)
      [] stage = "nullifier" ->
           VerificationResult(FALSE, NullifierReuseMessage,
                              TRUE, TRUE, FALSE, FALSE, Null)
      [] stage = "commitment" ->
           VerificationResult(FALSE, "Commitment verification failed",
                              TRUE, FALSE, TRUE, FALSE, Null)
      [] stage = "disclosures" ->
           VerificationResult(FALSE, "Disclosed attributes verification failed",
                              TRUE, TRUE, TRUE, FALSE, Null)
      [] stage = "expired" ->
           VerificationResult(FALSE, "Proof has expired (older than 24 hours)",
                              TRUE, TRUE, TRUE, TRUE, Null)
      [] stage = "ok" ->
           VerificationResult(TRUE, "Proof verified successfully",
                              TRUE, TRUE, TRUE, TRUE, proof.metadata.disclosures)

\* the try block of verifyProof: it returns a result, or throws where a
\* check reads what the proof does not have
TryBlock(stage, proof) ==
    IF stage \in {"error", "signalsError"}
    THEN [threw |-> TRUE, error |-> stage]
    ELSE [threw |-> FALSE, value |-> ResultAt(stage, proof)]

\* a verifyProof whose errors reach the caller
CatchRethrows(outcome) == outcome

\* catch (error): the error becomes a 'Verification error' result
Catch(outcome) ==
    IF outcome.threw
    THEN [threw |-> FALSE, value |-> ResultAt(outcome.error, Null)]
    ELSE outcome

\* a verifyProof whose commitment check opens the commitment and compares the
\* document hash inside it with the documentHash argument
VerificationOutcomeBound(proof, documentHash, registry, t) ==
    LET stage == Stage(proof, registry, t)
        bound == IF stage \in {"disclosures", "expired", "ok"}
                    /\ proof.publicSignals[1].text[2][2][1] # documentHash
                 THEN "commitment"
                 ELSE stage
    IN  Catch(TryBlock(bound, proof))

\* what the body of verifyProof gives for its arguments, the registry it loads
\* and the time it reads: no check of the body reads documentHash
VerificationOutcome(proof, documentHash, registry, t) ==
    Catch(TryBlock(Stage(proof, registry, t), proof))

\* a finished verifyProof call and what it returned or threw
ProofCall(proof, documentHash, markNullifierUsed, outcome) ==
    IF outcome.threw
    THEN [op |-> "verifyProof", proof |-> proof, fp |-> documentHash,
          mark |-> markNullifierUsed, threw |-> TRUE, valid |-> FALSE,
          message |-> outcome.error, details |-> Null,
          disclosedAttributes |-> Null]
    ELSE [op |-> "verifyProof", proof |-> proof, fp |-> documentHash,
          mark |-> markNullifierUsed, threw |-> FALSE,
          valid |-> outcome.value.valid, message |-> outcome.value.message,
          details |-> outcome.value.details,
          disclosedAttributes |-> outcome.value.disclosedAttributes]

\* verifyProof within one browsing context: everything up to its await runs
\* without interruption. A caller that holds the result of generateProof
\* passes on the proof it was given.
verifyProof(proof, documentHash, markNullifierUsed) ==
    LET stage == Stage(proof, nullifiers, now)
        consume == stage = "ok" /\ markNullifierUsed
    IN  /\ ret.op \in {"none", "generateProof"}
        /\ ret.op = "generateProof" => proof = ret.proof
        /\ nullifiers' = IF consume
                         THEN saveNullifier(nullifiers, NullifierOf(proof))
                         ELSE nullifiers
        /\ accepted' = IF consume THEN accepted \cup {proof} ELSE accepted
        /\ ret' = ProofCall(proof, documentHash, markNullifierUsed,
                            VerificationOutcome(proof, documentHash, nullifiers, now))
        /\ UNCHANGED <<ledgerVars, now, callerVars>>

resetNullifiers ==
    /\ ret.op = "none"
    /\ nullifiers' = {}
    /\ accepted' = {}
    /\ ret' = [op |-> "resetNullifiers"]
    /\ UNCHANGED <<ledgerVars, now, callerVars>>

\* the caller takes the result of verifyProof or resetNullifiers
VerifierReturn ==
    /\ ret.op \in {"verifyProof", "resetNullifiers"}
    /\ ret' = NoResult
    /\ UNCHANGED <<ledgerVars, verifierVars, now, callerVars>>

\* time passes between calls
Tick(ms) ==
    /\ ret.op = "none"
    /\ now + ms <= MaxHours * HourMs
    /\ now' = now + ms
    /\ UNCHANGED <<ledgerVars, verifierVars, ret, callerVars>>

TimeSteps == {HourMs, 24 * HourMs}

VerifierNext ==
    \/ \E p \in Proofs, h \in Fingerprints, m \in BOOLEAN : verifyProof(p, h, m)
    \/ resetNullifiers
    \/ VerifierReturn
    \/ \E ms \in TimeSteps : Tick(ms)

VerifierSpec == Init /\ [][VerifierNext]_vars

----------------------------------------------------------------------------
(* Proof generation, src/src/lib/zksnark/verifier.ts (prover part), and the *)
(* verification of the proof it returns                                     *)

\* what crypto.getRandomValues may give generateSalt
Salts == {"salt1", "salt2"}

\* selections a page may send: keys with a case in the switch and one without
SelectableKeys == {"ageOver18", "graduationYear", "shoeSize"}

SelectedDisclosures ==
    UNION {[1..n -> SelectableKeys] : n \in 0..MaxSelected}

\* a document whose graduationDate does not parse as a date
DocumentDatas ==
    {[nationality |-> Str(<<"IN">>, 2), graduationDate |-> NotADate]}

ProofRequests ==
    [documentHash : {"F1"}, documentType : {"type"}, documentCategory : {"identity"},
     documentData : DocumentDatas, holderName : {"holder"}, holderDOB : {""},
     selectedDisclosures : SelectedDisclosures]

\* resolves after a timeout of 500 ms with the proof, stamped then
generateProof(request) ==
    /\ ret.op = "none"
    /\ draws' = draws + 1
    /\ draws' <= MaxProofDraws
    /\ now' = now + 500
    /\ \E salt \in Salts :
           ret' = [op |-> "generateProof", request |-> request,
                   proof |-> AssembleProof(
                       request, getCircuitForCategory(request.documentCategory), salt,
                       buildDisclosedAttributes(request.documentData,
                                                request.documentCategory,
                                                request.selectedDisclosures),
                       now')]
    /\ UNCHANGED <<certificates, blocks, transactions, events, blockNumberItem,
                   blockchain, verificationLogs, verifierVars, callerVars>>

ProverNext ==
    \/ \E request \in ProofRequests : generateProof(request)
    \/ /\ ret.op = "generateProof"
       /\ \E m \in BOOLEAN : verifyProof(ret.proof, ret.request.documentHash, m)
    \/ VerifierReturn

ProverSpec == Init /\ [][ProverNext]_vars

----------------------------------------------------------------------------
(* verifyProof called from two browsing contexts (tabs) that share         *)
(* localStorage: each getItem and each setItem is one step, and the steps  *)
(* of the two contexts interleave.                                         *)

\* steps 1 to 7 of verifyProof, with the getItem of isNullifierUsed
VerifyCheck(c, proof, documentHash, markNullifierUsed) ==
    LET stage == Stage(proof, nullifiers, now)
    IN  /\ pc[c] = "idle"
        /\ pc' = [pc EXCEPT ![c] = IF stage = "ok" /\ markNullifierUsed
                                   THEN "save" ELSE "done"]
        /\ loc' = [loc EXCEPT ![c] =
                      [call |-> ProofCall(proof, documentHash, markNullifierUsed,
                                          VerificationOutcome(proof, documentHash,
                                                              nullifiers, now)),
                       loaded |-> {}]]
        /\ UNCHANGED <<ledgerVars, verifierVars, now, ret>>

\* saveNullifier: loadNullifiers reads the item
SaveLoad(c) ==
    /\ pc[c] = "save"
    /\ pc' = [pc EXCEPT ![c] = "store"]
    /\ loc' = [loc EXCEPT ![c].loaded = nullifiers]
    /\ UNCHANGED <<ledgerVars, verifierVars, now, ret>>

\* saveNullifier: setItem writes the loaded set plus the nullifier
SaveStore(c) ==
    /\ pc[c] = "store"
    /\ nullifiers' = saveNullifier(loc[c].loaded, NullifierOf(loc[c].call.proof))
    /\ pc' = [pc EXCEPT ![c] = "done"]
    /\ UNCHANGED <<ledgerVars, accepted, now, ret, loc>>

\* the promise resolves and the page takes the result
TabReturn(c) ==
    /\ pc[c] = "done"
    /\ pc' = [pc EXCEPT ![c] = "idle"]
    /\ loc' = [loc EXCEPT ![c] = Null]
    /\ UNCHANGED <<ledgerVars, verifierVars, now, ret>>

TabsNext ==
    \/ \E c \in Callers, p \in Proofs, h \in Fingerprints, m \in BOOLEAN :
           VerifyCheck(c, p, h, m)
    \/ \E c \in Callers : SaveLoad(c)
    \/ \E c \in Callers : SaveStore(c)
    \/ \E c \in Callers : TabReturn(c)

TabsSpec == Init /\ [][TabsNext]_vars

----------------------------------------------------------------------------
(* The ledgers, driven by one browsing context: a call runs to its end   *)
(* (every localStorage write of a handler happens before its first await),*)
(* then the caller takes the result.                                      *)

ContractOps ==
    {"issueCertificate", "verifyCertificateOnChain", "revokeCertificateOnChain",
     "suspendCertificateOnChain", "reinstateCertificateOnChain"}

SimulationOps ==
    {"storeCertificate", "verifyCertificate", "revokeCertificate",
     "suspendCertificate", "reinstateCertificate"}

LedgerOps ==
    ContractOps \cup SimulationOps \cup {"resetBlockchainState", "resetBlockchain"}

\* the caller is between calls, and the call stays within the bounds
Bounded(maxDraws) ==
    /\ ret.op = "none"
    /\ draws' <= maxDraws
    /\ Len(verificationLogs') <= MaxLogs

\* setTimeout(resolve, ms) awaited before a contract call returns; a call
\* that throws, and the synchronous simulation ledger, await nothing
Delay(r) ==
    IF r.threw THEN 0
    ELSE IF r.op = "issueCertificate" THEN 300
    ELSE IF r.op \in {"verifyCertificateOnChain", "revokeCertificateOnChain",
                      "suspendCertificateOnChain", "reinstateCertificateOnChain"}
         THEN 200
    ELSE 0

\* the promise resolves (or the function returns) and the caller takes the result
Return ==
    /\ ret.op \in LedgerOps
    /\ ret' = NoResult
    /\ now' = now + Delay(ret)
    /\ UNCHANGED <<ledgerVars, verifierVars, callerVars>>

\* nothing is stored under the keys of the contract ledger / of the
\* simulation ledger
ContractUnused ==
    certificates = <<>> /\ blocks = <<>> /\ transactions = <<>> /\ events = <<>>

SimulationUnused == blockchain = <<>> /\ verificationLogs = <<>>

\* a call into the contract ledger, by a page built on it
ContractCall == Bounded(MaxDraws) /\ SimulationUnused

\* a call into the simulation ledger, by a page built on it
SimulationCall == Bounded(MaxDraws) /\ ContractUnused

\* One ledger module is in use at a time: the pages of a build import either
\* '@/lib/blockchain' or '@/lib/simulation/blockchain', and a reset empties
\* the store before the other takes over. SharedSpec below drops this.
Next ==
    \/ \E h \in Fingerprints, p \in IssuedProofs, a \in Actors :
           issueCertificate(h, p, a) /\ ContractCall
    \/ \E h \in Fingerprints, j \in ProofJsons, a \in Actors :
           verifyCertificateOnChain(h, j, a) /\ ContractCall
    \/ \E h \in Fingerprints, a \in Actors, r \in Reasons :
           revokeCertificateOnChain(h, a, r) /\ ContractCall
    \/ \E h \in Fingerprints, a \in Actors, r \in Reasons :
           suspendCertificateOnChain(h, a, r) /\ ContractCall
    \/ \E h \in Fingerprints, a \in Actors, r \in Reasons :
           reinstateCertificateOnChain(h, a, r) /\ ContractCall
    \/ resetBlockchainState /\ ContractCall
    \/ \E h \in Fingerprints, p \in IssuedProofs, a \in Actors :
           storeCertificate(h, p, a) /\ SimulationCall
    \/ \E h \in Fingerprints, j \in ProofJsons, a \in Actors :
           verifyCertificate(h, j, a) /\ SimulationCall
    \/ \E h \in Fingerprints, a \in Actors, r \in Reasons :
           revokeCertificate(h, a, r) /\ SimulationCall
    \/ \E h \in Fingerprints, a \in Actors, r \in Reasons :
           suspendCertificate(h, a, r) /\ SimulationCall
    \/ \E h \in Fingerprints, a \in Actors, r \in Reasons :
           reinstateCertificate(h, a, r) /\ SimulationCall
    \/ resetBlockchain /\ SimulationCall
    \/ Return

Spec == Init /\ [][Next]_vars

\* The contract ledger by itself: the pages built on '@/lib/blockchain'
ContractNext ==
    \/ \E h \in Fingerprints, p \in IssuedProofs, a \in Actors :
           issueCertificate(h, p, a) /\ Bounded(MaxDraws)
    \/ \E h \in Fingerprints, j \in ProofJsons, a \in Actors :
           verifyCertificateOnChain(h, j, a) /\ Bounded(MaxDraws)
    \/ \E h \in Fingerprints, a \in Actors, r \in Reasons :
           revokeCertificateOnChain(h, a, r) /\ Bounded(MaxDraws)
    \/ \E h \in Fingerprints, a \in Actors, r \in Reasons :
           suspendCertificateOnChain(h, a, r) /\ Bounded(MaxDraws)
    \/ \E h \in Fingerprints, a \in Actors, r \in Reasons :
           reinstateCertificateOnChain(h, a, r) /\ Bounded(MaxDraws)
    \/ resetBlockchainState /\ Bounded(MaxDraws)
    \/ Return

ContractSpec == Init /\ [][ContractNext]_vars

\* The simulation ledger by itself: the pages built on
\* '@/lib/simulation/blockchain'
SimulationNext ==
    \/ \E h \in Fingerprints, p \in IssuedProofs, a \in Actors :
           storeCertificate(h, p, a) /\ Bounded(MaxDraws)
    \/ \E h \in Fingerprints, j \in ProofJsons, a \in Actors :
           verifyCertificate(h, j, a) /\ Bounded(MaxDraws)
    \/ \E h \in Fingerprints, a \in Actors, r \in Reasons :
           revokeCertificate(h, a, r) /\ Bounded(MaxDraws)
    \/ \E h \in Fingerprints, a \in Actors, r \in Reasons :
           suspendCertificate(h, a, r) /\ Bounded(MaxDraws)
    \/ \E h \in Fingerprints, a \in Actors, r \in Reasons :
           reinstateCertificate(h, a, r) /\ Bounded(MaxDraws)
    \/ resetBlockchain /\ Bounded(MaxDraws)
    \/ Return

SimulationSpec == Init /\ [][SimulationNext]_vars

\* The application as a whole: the ledger calls of a build and the calls
\* into the nullifier registry, one call at a time
AppProofs == {ProofA, ProofB, ShortCommitmentProof}

AppLedgerCall == Bounded(MaxAppDraws)

AppNext ==
    \/ \E h \in Fingerprints, p \in IssuedProofs, a \in Actors :
           issueCertificate(h, p, a) /\ AppLedgerCall /\ SimulationUnused
    \/ \E h \in Fingerprints, j \in ProofJsons, a \in Actors :
           verifyCertificateOnChain(h, j, a) /\ AppLedgerCall /\ SimulationUnused
    \/ \E h \in Fingerprints, a \in Actors, r \in Reasons :
           revokeCertificateOnChain(h, a, r) /\ AppLedgerCall /\ SimulationUnused
    \/ \E h \in Fingerprints, a \in Actors, r \in Reasons :
           suspendCertificateOnChain(h, a, r) /\ AppLedgerCall /\ SimulationUnused
    \/ \E h \in Fingerprints, a \in Actors, r \in Reasons :
           reinstateCertificateOnChain(h, a, r) /\ AppLedgerCall /\ SimulationUnused
    \/ resetBlockchainState /\ AppLedgerCall /\ SimulationUnused
    \/ \E h \in Fingerprints, p \in IssuedProofs, a \in Actors :
           storeCertificate(h, p, a) /\ AppLedgerCall /\ ContractUnused
    \/ \E h \in Fingerprints, j \in ProofJsons, a \in Actors :
           verifyCertificate(h, j, a) /\ AppLedgerCall /\ ContractUnused
    \/ \E h \in Fingerprints, a \in Actors, r \in Reasons :
           revokeCertificate(h, a, r) /\ AppLedgerCall /\ ContractUnused
    \/ \E h \in Fingerprints, a \in Actors, r \in Reasons :
           suspendCertificate(h, a, r) /\ AppLedgerCall /\ ContractUnused
    \/ \E h \in Fingerprints, a \in Actors, r \in Reasons :
           reinstateCertificate(h, a, r) /\ AppLedgerCall /\ ContractUnused
    \/ resetBlockchain /\ AppLedgerCall /\ ContractUnused
    \/ Return
    \/ \E p \in AppProofs, h \in Fingerprints, m \in BOOLEAN : verifyProof(p, h, m)
    \/ resetNullifiers
    \/ VerifierReturn

AppSpec == Init /\ [][AppNext]_vars

\* Both modules loaded against one localStorage: every operation that reads
\* or writes the 'zkvault_block_number' key
SharedNext ==
    \/ \E h \in Fingerprints, p \in IssuedProofs, a \in Actors :
           issueCertificate(h, p, a) /\ Bounded(MaxSharedDraws)
    \/ \E h \in Fingerprints, j \in ProofJsons, a \in Actors :
           verifyCertificateOnChain(h, j, a) /\ Bounded(MaxSharedDraws)
    \/ \E h \in Fingerprints, a \in Actors, r \in Reasons :
           revokeCertificateOnChain(h, a, r) /\ Bounded(MaxSharedDraws)
    \/ \E h \in Fingerprints, a \in Actors, r \in Reasons :
           suspendCertificateOnChain(h, a, r) /\ Bounded(MaxSharedDraws)
    \/ \E h \in Fingerprints, a \in Actors, r \in Reasons :
           reinstateCertificateOnChain(h, a, r) /\ Bounded(MaxSharedDraws)
    \/ resetBlockchainState /\ Bounded(MaxSharedDraws)
    \/ \E h \in Fingerprints, p \in IssuedProofs, a \in Actors :
           storeCertificate(h, p, a) /\ Bounded(MaxSharedDraws)
    \/ resetBlockchain /\ Bounded(MaxSharedDraws)
    \/ Return

SharedSpec == Init /\ [][SharedNext]_vars

----------------------------------------------------------------------------
(* The verification page, src/unnamed/part_005: handleVerify composes the  *)
(* contract ledger's verification with verifyProof.                         *)

\* pasted text that JSON.parse rejects
NotJson == Str(<<"not json">>, 8)

IsJson(s) == s.text # <<>> /\ s.text[1] = "json"

\* JSON.parse of a serialized proof
deserializeProof(proofJson) == proofJson.text[2]

PageProofJsons == ProofJsons \cup {NotJson}

\* what the page shows after handleVerify
PageResult(certificateHash, proof, chain, zk, valid, status, message) ==
    [op |-> "handleVerify", fp |-> certificateHash, proof |-> proof,
     chainValid |-> chain, zkRan |-> zk # Null,
     zkValid |-> IF zk # Null THEN zk.valid ELSE FALSE,
     proofDetails |-> IF zk # Null THEN zk.details ELSE Null,
     disclosedAttributes |-> IF zk # Null /\ zk.valid THEN zk.disclosedAttributes
                             ELSE <<>>,
     valid |-> valid, status |-> status, message |-> message]

\* handleVerify with a certificate hash, the pasted proof text and the
\* answer of the Ethereum lookup (FALSE also when no wallet is installed)
handleVerify(certificateHash, proofJson, ethereumVerified) ==
    IF Truthy(proofJson) /\ ~IsJson(proofJson)
    THEN /\ ret' = PageResult(certificateHash, Null, FALSE, Null, FALSE, "none",
                              "Invalid proof JSON format")
         /\ UNCHANGED <<ledgerVars, verifierVars, now, callerVars>>
    ELSE
    LET proof == IF Truthy(proofJson) THEN deserializeProof(proofJson) ELSE Null
        blockchainResult == ChainVerification(certificateHash, proofJson)
        index == FindIndex(certificates, LAMBDA c : HasHash(c, certificateHash))
        \* verifyProof(proof, certificateHash, false), after the ledger's await
        zkResult == IF proof # Null /\ index # 0
                    THEN ResultAt(Stage(proof, nullifiers, now + 200), proof)
                    ELSE Null
        isValid == blockchainResult.valid \/ ethereumVerified
        status == IF isValid THEN "valid"
                  ELSE IF index = 0 THEN "not_found"
                  ELSE IF certificates[index].status = "revoked" THEN "revoked"
                  ELSE IF certificates[index].status = "suspended" THEN "suspended"
                  ELSE "invalid"
        message == IF isValid
                   THEN "Certificate verified successfully on blockchain!"
                   ELSE blockchainResult.message
    IN  /\ RecordVerification(certificateHash, proofJson, "anonymous", blockchainResult)
        /\ ret' = PageResult(certificateHash, proof, blockchainResult.valid, zkResult,
                             isValid, status, message)
        /\ UNCHANGED <<certificates, blockchain, verificationLogs, verifierVars, now,
                       callerVars>>

\* the handler finishes: the awaits inside it have passed
PageReturn ==
    /\ ret.op = "handleVerify"
    /\ ret' = NoResult
    /\ now' = now + IF ret.message = "Invalid proof JSON format" THEN 0
                    ELSE IF ret.zkRan THEN 400 ELSE 200
    /\ UNCHANGED <<ledgerVars, verifierVars, callerVars>>

PageCall == Bounded(MaxPageDraws)

PageNext ==
    \/ \E h \in Fingerprints, p \in IssuedProofs, a \in Actors :
           issueCertificate(h, p, a) /\ PageCall
    \/ \E h \in Fingerprints, a \in Actors, r \in Reasons :
           revokeCertificateOnChain(h, a, r) /\ PageCall
    \/ \E h \in Fingerprints, a \in Actors, r \in Reasons :
           suspendCertificateOnChain(h, a, r) /\ PageCall
    \/ \E h \in Fingerprints, j \in PageProofJsons, e \in BOOLEAN :
           handleVerify(h, j, e) /\ ret.op = "none" /\ draws' <= MaxPageDraws
    \/ Return
    \/ PageReturn
    \/ Tick(24 * HourMs)

PageSpec == Init /\ [][PageNext]_vars

----------------------------------------------------------------------------
(* Contract ledger calls from two browsing contexts (tabs) that share      *)
(* localStorage: each getItem and each setItem of a call is one step, in   *)
(* the order the call makes them, and the steps of the two tabs interleave. *)

TabCalls == {"issueCertificate", "verifyCertificateOnChain"}

At(c, label) == pc[c] = label

Goto(c, label) == pc' = [pc EXCEPT ![c] = label]

\* the call starts: loadState(CERTIFICATES) and the checks on it
CallBegin(c, op, documentHash) ==
    LET issue == op = "issueCertificate"
        existing == FindIndex(certificates,
                              LAMBDA r : IsActiveDuplicate(r, documentHash))
    IN  /\ At(c, "idle")
        /\ ~(issue /\ existing # 0)
        /\ draws + (IF issue THEN 2 ELSE 1) <= MaxTabDraws
        /\ loc' = [loc EXCEPT ![c] =
                      [op |-> op, fp |-> documentHash,
                       certificates |-> certificates,
                       id |-> IF issue THEN generateCertificateId(now, draws) ELSE NoId,
                       outcome |-> IF issue THEN Null
                                   ELSE ChainVerification(documentHash, EmptyStr),
                       transactions |-> <<>>, tx |-> Null,
                       blocks |-> <<>>, current |-> 0, block |-> Null,
                       events |-> <<>>]]
        /\ draws' = IF issue THEN draws + 1 ELSE draws
        /\ Goto(c, "recordTransaction")
        /\ UNCHANGED <<contractVars, blockNumberItem, blockchain, verificationLogs,
                       verifierVars, now, ret>>

\* recordTransaction: loadState(TRANSACTIONS), the transaction is built
TxLoad(c) ==
    /\ At(c, "recordTransaction")
    /\ loc' = [loc EXCEPT ![c].transactions = transactions,
                          ![c].tx =
                              recordTransaction(
                                  IF loc[c].op = "issueCertificate" THEN "admin"
                                  ELSE "anonymous",
                                  IF loc[c].op = "issueCertificate" THEN "issueCertificate"
                                  ELSE "verifyCertificate",
                                  [documentHash |-> loc[c].fp], 0, <<>>, now, draws)]
    /\ draws' = draws + 1
    /\ Goto(c, "saveTransactions")
    /\ UNCHANGED <<contractVars, blockNumberItem, blockchain, verificationLogs,
                   verifierVars, now, ret>>

\* recordTransaction: saveState(TRANSACTIONS)
TxSave(c) ==
    /\ At(c, "saveTransactions")
    /\ transactions' = Append(loc[c].transactions, loc[c].tx)
    /\ Goto(c, "mineBlock")
    /\ UNCHANGED <<certificates, blocks, events, blockNumberItem, blockchain,
                   verificationLogs, draws, verifierVars, now, ret, loc>>

\* mineBlock: loadState(BLOCKS)
BlocksLoad(c) ==
    /\ At(c, "mineBlock")
    /\ loc' = [loc EXCEPT ![c].blocks = blocks]
    /\ Goto(c, "getNextBlockNumber")
    /\ UNCHANGED <<ledgerVars, verifierVars, now, ret>>

\* getNextBlockNumber: getItem(BLOCK_NUMBER)
NumberGet(c) ==
    /\ At(c, "getNextBlockNumber")
    /\ loc' = [loc EXCEPT ![c].current = ReadBlockNumber(blockNumberItem)]
    /\ Goto(c, "setBlockNumber")
    /\ UNCHANGED <<ledgerVars, verifierVars, now, ret>>

\* getNextBlockNumber: setItem(BLOCK_NUMBER, current + 1)
NumberSet(c) ==
    /\ At(c, "setBlockNumber")
    /\ blockNumberItem' = NextBlockNumberItem(<<loc[c].current>>)
    /\ Goto(c, "saveBlocks")
    /\ UNCHANGED <<contractVars, blockchain, verificationLogs, draws, verifierVars,
                   now, ret, loc>>

\* mineBlock: the block is pushed on the loaded list, saveState(BLOCKS)
BlocksSave(c) ==
    LET block == mineBlock(loc[c].blocks, <<loc[c].current>>, <<loc[c].tx.hash>>, now)
    IN  /\ At(c, "saveBlocks")
        /\ blocks' = Append(loc[c].blocks, block)
        /\ loc' = [loc EXCEPT ![c].block = block]
        /\ Goto(c, "emitEvent")
        /\ UNCHANGED <<certificates, transactions, events, blockNumberItem, blockchain,
                       verificationLogs, draws, verifierVars, now, ret>>

\* emitEvent: loadState(EVENTS)
EventsLoad(c) ==
    /\ At(c, "emitEvent")
    /\ loc' = [loc EXCEPT ![c].events = events]
    /\ Goto(c, "saveEvents")
    /\ UNCHANGED <<ledgerVars, verifierVars, now, ret>>

\* emitEvent: saveState(EVENTS)
EventsSave(c) ==
    LET issue == loc[c].op = "issueCertificate"
        event == ContractEvent(IF issue THEN "CertificateIssued"
                               ELSE "CertificateVerified",
                               loc[c].tx, loc[c].block, now,
                               [documentHash |-> loc[c].fp])
    IN  /\ At(c, "saveEvents")
        /\ events' = Append(loc[c].events, event)
        /\ Goto(c, IF issue THEN "saveCertificates" ELSE "await")
        /\ UNCHANGED <<certificates, blocks, transactions, blockNumberItem, blockchain,
                       verificationLogs, draws, verifierVars, now, ret, loc>>

\* issueCertificate: the certificate is pushed on the list loaded at the
\* start, saveState(CERTIFICATES)
CertificatesSave(c) ==
    /\ At(c, "saveCertificates")
    /\ certificates' =
           Append(loc[c].certificates,
                  NewCertificate(loc[c].fp, ProofA, "admin", loc[c].id,
                                 loc[c].tx, loc[c].block, now))
    /\ Goto(c, "await")
    /\ UNCHANGED <<blocks, transactions, events, blockNumberItem, blockchain,
                   verificationLogs, draws, verifierVars, now, ret, loc>>

\* the call's timer fires and its promise resolves
CallDone(c) ==
    /\ At(c, "await")
    /\ Goto(c, "idle")
    /\ loc' = [loc EXCEPT ![c] = Null]
    /\ UNCHANGED <<ledgerVars, verifierVars, now, ret>>

LedgerTabsNext ==
    \/ \E c \in Callers, op \in TabCalls, h \in Fingerprints : CallBegin(c, op, h)
    \/ \E c \in Callers : TxLoad(c)
    \/ \E c \in Callers : TxSave(c)
    \/ \E c \in Callers : BlocksLoad(c)
    \/ \E c \in Callers : NumberGet(c)
    \/ \E c \in Callers : NumberSet(c)
    \/ \E c \in Callers : BlocksSave(c)
    \/ \E c \in Callers : EventsLoad(c)
    \/ \E c \in Callers : EventsSave(c)
    \/ \E c \in Callers : CertificatesSave(c)
    \/ \E c \in Callers : CallDone(c)

LedgerTabsSpec == Init /\ [][LedgerTabsNext]_vars

----------------------------------------------------------------------------
(* Claims about the ledgers *)

ActiveWith(list, h, Hash(_)) ==
    {i \in DOMAIN list : Hash(list[i]) = h /\ list[i].status = "active"}

ContractHash(c) == c.documentHash

SimHash(r) == r.hash

\* the record a transition call looks up: the first one with the fingerprint
LookedUp(list, h, Hash(_)) == FindIndex(list, LAMBDA c : Hash(c) = h)

Failed(r) == r.threw \/ ~r.success

\* list2 is list1 with exactly one element appended
OneAppended(list1, list2) ==
    /\ Len(list2) = Len(list1) + 1
    /\ SubSeq(list2, 1, Len(list1)) = list1

Last(list) == list[Len(list)]

\* C1: for every fingerprint at most one stored record with that fingerprint
\* is active, in the contract ledger and in the simulation ledger.
C1_UniqueActive ==
    \A h \in Fingerprints :
        /\ Cardinality(ActiveWith(certificates, h, ContractHash)) <= 1
        /\ Cardinality(ActiveWith(blockchain, h, SimHash)) <= 1

\* C4: a record that is revoked stays stored and revoked under every issue,
\* verify, revoke, suspend and reinstate call (every step but the resets).
C4_RevokedIsTerminal ==
    [][ret'.op \in ContractOps \cup SimulationOps =>
        /\ \A i \in DOMAIN certificates :
               certificates[i].status = "revoked" =>
                   /\ i \in DOMAIN certificates'
                   /\ certificates'[i].id = certificates[i].id
                   /\ certificates'[i].status = "revoked"
        /\ \A i \in DOMAIN blockchain :
               blockchain[i].status = "revoked" =>
                   /\ i \in DOMAIN blockchain'
                   /\ blockchain'[i].id = blockchain[i].id
                   /\ blockchain'[i].status = "revoked"]_vars

\* a call on a revoked record has been made, and the record is still revoked
C4_Witness ==
    /\ ret.op \in {"reinstateCertificateOnChain", "suspendCertificateOnChain",
                   "revokeCertificateOnChain"}
    /\ ret.threw
    /\ LookedUp(certificates, ret.fp, ContractHash) # 0
    /\ certificates[LookedUp(certificates, ret.fp, ContractHash)].status = "revoked"

\* the statuses (and histories) of the stored records are what they were
SameStatuses ==
    /\ DOMAIN certificates' = DOMAIN certificates
    /\ \A i \in DOMAIN certificates : certificates'[i].status = certificates[i].status
    /\ DOMAIN blockchain' = DOMAIN blockchain
    /\ \A i \in DOMAIN blockchain :
           /\ blockchain'[i].status = blockchain[i].status
           /\ blockchain'[i].statusHistory = blockchain[i].statusHistory

\* the status of the record a call with this result looked up, "none" if none
StatusBefore(r) ==
    IF r.op \in ContractOps
    THEN IF LookedUp(certificates, r.fp, ContractHash) = 0 THEN "none"
         ELSE certificates[LookedUp(certificates, r.fp, ContractHash)].status
    ELSE IF LookedUp(blockchain, r.fp, SimHash) = 0 THEN "none"
         ELSE blockchain[LookedUp(blockchain, r.fp, SimHash)].status

\* C5: revoke on a revoked record, suspend on a suspended or revoked record
\* and reinstate on an active or revoked record fail, and leave every
\* record's status and statusHistory as it was.
C5_IllegalTransitionsFail ==
    [][/\ (/\ ret'.op \in {"revokeCertificateOnChain", "revokeCertificate"}
           /\ StatusBefore(ret') = "revoked")
          => Failed(ret') /\ SameStatuses
       /\ (/\ ret'.op \in {"suspendCertificateOnChain", "suspendCertificate"}
           /\ StatusBefore(ret') \in {"suspended", "revoked"})
          => Failed(ret') /\ SameStatuses
       /\ (/\ ret'.op \in {"reinstateCertificateOnChain", "reinstateCertificate"}
           /\ StatusBefore(ret') \in {"active", "revoked"})
          => Failed(ret') /\ SameStatuses]_vars

\* suspend has been refused on a suspended record of the simulation ledger
C5_Witness ==
    /\ ret.op = "suspendCertificate"
    /\ ~ret.success
    /\ LookedUp(blockchain, ret.fp, SimHash) # 0
    /\ blockchain[LookedUp(blockchain, ret.fp, SimHash)].status = "suspended"
    /\ Len(blockchain[LookedUp(blockchain, ret.fp, SimHash)].statusHistory) = 2

\* C6: whenever some record with fingerprint F is active or suspended,
\* revoke(F) succeeds, and a record of F that was active or suspended is
\* revoked afterwards.
C6_RevokeFromActiveOrSuspended ==
    [][/\ ret'.op = "revokeCertificateOnChain" =>
            ((\E i \in DOMAIN certificates :
                  /\ certificates[i].documentHash = ret'.fp
                  /\ certificates[i].status \in {"active", "suspended"})
             => /\ ~Failed(ret')
                /\ \E i \in DOMAIN certificates :
                       /\ certificates[i].documentHash = ret'.fp
                       /\ certificates[i].status \in {"active", "suspended"}
                       /\ certificates'[i].status = "revoked")
       /\ ret'.op = "revokeCertificate" =>
            ((\E i \in DOMAIN blockchain :
                  /\ blockchain[i].hash = ret'.fp
                  /\ blockchain[i].status \in {"active", "suspended"})
             => /\ ~Failed(ret')
                /\ \E i \in DOMAIN blockchain :
                       /\ blockchain[i].hash = ret'.fp
                       /\ blockchain[i].status \in {"active", "suspended"}
                       /\ blockchain'[i].status = "revoked")]_vars

\* the outcome of an issue call on `list`: refused exactly when an active
\* record has the fingerprint, else one active record with a new id appended
IssueOutcome(r, list, list2, Hash(_)) ==
    /\ r.threw <=> ActiveWith(list, r.fp, Hash) # {}
    /\ r.threw => list2 = list
    /\ ~r.threw =>
           /\ OneAppended(list, list2)
           /\ Hash(Last(list2)) = r.fp
           /\ Last(list2).status = "active"
           /\ Last(list2).id = r.id
           /\ \A i \in DOMAIN list : list[i].id # Last(list2).id

\* C7: issue is rejected if and only if a record with the same fingerprint
\* is active; otherwise it appends one record, active and with a new id, and
\* leaves the older records as they were.
C7_IssueRejectedIffActive ==
    [][/\ ret'.op = "issueCertificate" =>
            IssueOutcome(ret', certificates, certificates', ContractHash)
       /\ ret'.op = "storeCertificate" =>
            IssueOutcome(ret', blockchain, blockchain', SimHash)]_vars

\* a fingerprint has been issued again next to its revoked copy
C7_Witness ==
    /\ ret.op = "issueCertificate"
    /\ ret.success
    /\ \E i \in 1..(Len(certificates) - 1) :
           /\ certificates[i].documentHash = ret.fp
           /\ certificates[i].status = "revoked"
    /\ Last(certificates).documentHash = ret.fp
    /\ Last(certificates).status = "active"

\* C8: the first block's parentHash is '0x' and 64 zeros, every later
\* block's parentHash is the hash of the block before it.
C8_BlockChaining ==
    \A i \in DOMAIN blocks :
        blocks[i].parentHash = IF i = 1 THEN ZeroHash ELSE blocks[i - 1].hash

\* three blocks have been mined
C8_Witness == Len(blocks) >= 3

\* C9: the block list has the numbers 1, 2, 3, ... in order.
C9_BlockNumbersSequential ==
    \A i \in DOMAIN blocks : blocks[i].number = i

EventOf(op) ==
    CASE op = "issueCertificate" -> "CertificateIssued"
      [] op = "verifyCertificateOnChain" -> "CertificateVerified"
      [] op = "revokeCertificateOnChain" -> "CertificateRevoked"
      [] op = "suspendCertificateOnChain" -> "CertificateSuspended"
      [] op = "reinstateCertificateOnChain" -> "CertificateReinstated"

\* C10: a contract call that does not throw appends exactly one transaction,
\* one block holding exactly that transaction's hash, and one event of the
\* operation's type carrying that transaction hash and that block's number.
C10_OneTransactionBlockEvent ==
    [][(ret'.op \in ContractOps /\ ~ret'.threw) =>
        /\ OneAppended(transactions, transactions')
        /\ OneAppended(blocks, blocks')
        /\ OneAppended(events, events')
        /\ Last(transactions').hash = ret'.tx
        /\ Last(blocks').transactions = <<Last(transactions').hash>>
        /\ Last(events').eventName = EventOf(ret'.op)
        /\ Last(events').transactionHash = Last(transactions').hash
        /\ Last(events').blockNumber = Last(blocks').number]_vars

\* a reinstatement has been committed on top of earlier calls
C10_Witness ==
    /\ ret.op = "reinstateCertificateOnChain"
    /\ ret.success
    /\ Len(events) >= 3
    /\ Last(events).eventName = "CertificateReinstated"


\* C11: verifyCertificateOnChain and verifyCertificate leave the stored
\* certificate list unchanged for every input and always record the attempt:
\* one transaction, one block and one CertificateVerified event in the
\* contract ledger, one verification log entry in the simulation ledger.
C11_VerifyOnlyRecordsAttempt ==
    [][/\ ret'.op = "verifyCertificateOnChain" =>
            /\ certificates' = certificates
            /\ OneAppended(transactions, transactions')
            /\ OneAppended(blocks, blocks')
            /\ OneAppended(events, events')
            /\ Last(transactions').method = "verifyCertificate"
            /\ Last(blocks').transactions = <<Last(transactions').hash>>
            /\ Last(events').eventName = "CertificateVerified"
            /\ Last(events').args.result = ret'.valid
       /\ ret'.op = "verifyCertificate" =>
            /\ blockchain' = blockchain
            /\ OneAppended(verificationLogs, verificationLogs')
            /\ Last(verificationLogs').certificateHash = ret'.fp
            /\ Last(verificationLogs').details = ret'.message]_vars

\* a verification of a revoked certificate has been recorded
C11_Witness ==
    /\ ret.op = "verifyCertificateOnChain"
    /\ ~ret.valid
    /\ ret.message = "Certificate has been revoked"
    /\ Last(events).eventName = "CertificateVerified"
    /\ \E i \in DOMAIN certificates : certificates[i].status = "revoked"

VerifyOps == {"verifyCertificateOnChain", "verifyCertificate"}

\* C12: ledger verify returns valid = false with the not-found message when
\* no record has the fingerprint, with the revoked message when the record
\* it finds is revoked and with the suspended message when it is suspended,
\* whatever proof is supplied; valid = true only comes from an active record.
C12_VerifyOutcomeByStatus ==
    [][ret'.op \in VerifyOps =>
        /\ StatusBefore(ret') = "none" =>
               ~ret'.valid /\ ret'.message = "Certificate not found in registry"
        /\ StatusBefore(ret') = "revoked" =>
               ~ret'.valid /\ ret'.message = "Certificate has been revoked"
        /\ StatusBefore(ret') = "suspended" =>
               ~ret'.valid /\ ret'.message = "Certificate is currently suspended"
        /\ ret'.valid => StatusBefore(ret') = "active"]_vars

\* a suspended certificate has been verified with a proof and refused
C12_Witness ==
    /\ ret.op = "verifyCertificateOnChain"
    /\ ~ret.valid
    /\ ret.message = "Certificate is currently suspended"
    /\ Last(transactions).args.hasProof

ContractMutations ==
    {"issueCertificate", "revokeCertificateOnChain", "suspendCertificateOnChain",
     "reinstateCertificateOnChain"}

SimulationMutations ==
    {"storeCertificate", "revokeCertificate", "suspendCertificate",
     "reinstateCertificate"}

\* C17: a rejected issue, revoke, suspend or reinstate leaves the
\* certificates, blocks, transactions, events and the block-number counter
\* exactly as they were (and the simulation ledger its record list).
C17_RejectedMutationWritesNothing ==
    [][(ret'.op \in ContractMutations \cup SimulationMutations /\ Failed(ret')) =>
          /\ certificates' = certificates
          /\ blocks' = blocks
          /\ transactions' = transactions
          /\ events' = events
          /\ blockNumberItem' = blockNumberItem
          /\ blockchain' = blockchain]_vars

\* a reinstatement has been rejected in a ledger that holds committed calls
C17_Witness ==
    /\ ret.op = "reinstateCertificateOnChain"
    /\ ret.threw
    /\ Len(certificates) >= 1
    /\ Len(blocks) >= 2
    /\ blockNumberItem = <<Len(blocks) + 1>>

\* C18: every stored certificate's transactionHash is the hash of a recorded
\* transaction, a recorded block contains that hash, and the certificate's
\* blockNumber is that block's number; no certificate is stored with the
\* placeholder blockNumber 0 or an empty transactionHash.
C18_ReferentialIntegrity ==
    \A i \in DOMAIN certificates :
        /\ certificates[i].blockNumber # 0
        /\ certificates[i].transactionHash # EmptyStr
        /\ \E t \in DOMAIN transactions :
               transactions[t].hash = certificates[i].transactionHash
        /\ \E b \in DOMAIN blocks :
               /\ \E k \in DOMAIN blocks[b].transactions :
                      blocks[b].transactions[k] = certificates[i].transactionHash
               /\ blocks[b].number = certificates[i].blockNumber

\* two certificates are stored, one of them changed by a later call
C18_Witness ==
    /\ Len(certificates) >= 2
    /\ \E i \in DOMAIN certificates : certificates[i].status # "active"
    /\ Len(blocks) >= 3

\* C19: a failing issue, revoke, suspend or reinstate returns a result with
\* success = false and a message; it does not throw.
C19_FailuresAreReturned ==
    [][(ret'.op \in ContractMutations \cup SimulationMutations /\ Failed(ret')) =>
          /\ ~ret'.threw
          /\ ~ret'.success
          /\ ret'.message # ""]_vars

IsPrefix(list1, list2) ==
    /\ Len(list1) <= Len(list2)
    /\ SubSeq(list2, 1, Len(list1)) = list1

\* C21: a record's statusHistory at a later state has its earlier
\* statusHistory as a prefix; every operation but resetBlockchain keeps
\* every record in its place.
C21_StatusHistoryAppendOnly ==
    [][/\ \A i \in DOMAIN blockchain : \A j \in DOMAIN blockchain' :
              blockchain'[j].id = blockchain[i].id =>
                  IsPrefix(blockchain[i].statusHistory, blockchain'[j].statusHistory)
       /\ ret'.op \in SimulationOps =>
              \A i \in DOMAIN blockchain :
                  /\ i \in DOMAIN blockchain'
                  /\ blockchain'[i].id = blockchain[i].id]_vars

\* a record has been issued, suspended and reinstated
C21_Witness ==
    \E i \in DOMAIN blockchain :
        /\ Len(blockchain[i].statusHistory) >= 3
        /\ blockchain[i].status = "active"

TargetStatus(op) ==
    CASE op = "revokeCertificate" -> "revoked"
      [] op = "suspendCertificate" -> "suspended"
      [] op = "reinstateCertificate" -> "active"

\* the histories of the records other than record k are what they were
OtherHistoriesKept(k) ==
    /\ DOMAIN blockchain' = DOMAIN blockchain
    /\ \A i \in DOMAIN blockchain :
           i # k => blockchain'[i].statusHistory = blockchain[i].statusHistory

\* C22: every record's statusHistory starts with the one entry from 'none'
\* to 'active' made at issuance; a successful revoke, suspend or reinstate
\* adds exactly one entry, from the status before the call to the new
\* status; failed calls and verify add none.
C22_OneEntryPerTransition ==
    [][/\ \A i \in DOMAIN blockchain' :
              /\ Len(blockchain'[i].statusHistory) >= 1
              /\ blockchain'[i].statusHistory[1].from = "none"
              /\ blockchain'[i].statusHistory[1].to = "active"
       /\ (ret'.op = "storeCertificate" /\ ~Failed(ret')) =>
              /\ OneAppended(blockchain, blockchain')
              /\ Len(Last(blockchain').statusHistory) = 1
       /\ (ret'.op \in {"revokeCertificate", "suspendCertificate",
                        "reinstateCertificate"} /\ ~Failed(ret')) =>
              LET k == LookedUp(blockchain, ret'.fp, SimHash)
              IN  /\ k # 0
                  /\ OtherHistoriesKept(k)
                  /\ OneAppended(blockchain[k].statusHistory,
                                 blockchain'[k].statusHistory)
                  /\ Last(blockchain'[k].statusHistory).from = blockchain[k].status
                  /\ Last(blockchain'[k].statusHistory).to = TargetStatus(ret'.op)
                  /\ blockchain'[k].status = TargetStatus(ret'.op)
       /\ (ret'.op \in SimulationOps
           /\ (Failed(ret') \/ ret'.op = "verifyCertificate")) =>
              OtherHistoriesKept(0)]_vars

\* a reinstatement has added the third entry of a record's history
C22_Witness ==
    /\ ret.op = "reinstateCertificate"
    /\ ret.success
    /\ \E i \in DOMAIN blockchain :
           /\ Len(blockchain[i].statusHistory) = 3
           /\ blockchain[i].statusHistory[3].from = "suspended"
           /\ blockchain[i].statusHistory[3].to = "active"

\* the record without the fields a status change may write
Without(record, fields) ==
    [f \in (DOMAIN record) \ fields |-> record[f]]

\* every record of the earlier list is in the later list, at its place and
\* equal apart from the given fields
RecordsKept(before, after, fields) ==
    /\ Len(after) >= Len(before)
    /\ \A i \in DOMAIN before :
           Without(after[i], fields) = Without(before[i], fields)

\* C23: under issue, verify, revoke, suspend and reinstate no record is
\* deleted and no record's id, fingerprint, storage locator, proof,
\* proofHash, issuer, holder, document type, metadata, blockNumber or
\* transactionHash changes; status, updatedAt and statusHistory change
\* only through revoke, suspend and reinstate.
C23_RecordsImmutableApartFromStatus ==
    [][/\ ret'.op \in ContractOps =>
              RecordsKept(certificates, certificates', {"status", "updatedAt"})
       /\ ret'.op \in SimulationOps =>
              RecordsKept(blockchain, blockchain', {"status", "statusHistory"})
       /\ ret'.op \in VerifyOps \cup {"issueCertificate", "storeCertificate"} =>
              /\ RecordsKept(certificates, certificates', {})
              /\ RecordsKept(blockchain, blockchain', {})]_vars

\* the second of two certificates has been revoked, the first left active
C23_Witness ==
    /\ ret.op = "revokeCertificateOnChain"
    /\ ret.success
    /\ Len(certificates) >= 2
    /\ certificates[1].status = "active"
    /\ certificates[2].status = "revoked"

\* C24: apart from resetBlockchainState, every step leaves the event log,
\* the transaction list and the block list with what they held as a prefix
\* of what they hold afterwards.
C24_LogsAppendOnly ==
    [][ret'.op # "resetBlockchainState" =>
           /\ IsPrefix(events, events')
           /\ IsPrefix(transactions, transactions')
           /\ IsPrefix(blocks, blocks')]_vars

\* a third call has added to lists that held two entries each
C24_Witness ==
    /\ ret.op \in ContractOps
    /\ ~Failed(ret)
    /\ Len(events) >= 3
    /\ Len(transactions) >= 3
    /\ Len(blocks) >= 3

\* C27: the registry and the ledger are independent: no ledger operation
\* (issue, verify, revoke, suspend, reinstate, resetBlockchainState,
\* resetBlockchain) changes the registry, and verifyProof and
\* resetNullifiers change neither certificates, blocks, transactions, events
\* and the block counter nor the simulation ledger's records and logs.
C27_RegistryAndLedgerIndependent ==
    [][/\ ret'.op \in LedgerOps => nullifiers' = nullifiers
       /\ ret'.op \in {"verifyProof", "resetNullifiers"} =>
              /\ UNCHANGED <<certificates, blocks, transactions, events>>
              /\ UNCHANGED <<blockNumberItem, blockchain, verificationLogs>>]_vars

\* resetBlockchainState has emptied a ledger holding a certificate while
\* the registry holds a nullifier
C27_Witness ==
    /\ ret.op = "resetBlockchainState"
    /\ nullifiers # {}
    /\ draws >= 1
    /\ certificates = <<>>

NoProofMessages ==
    {"Certificate exists and is active (no proof provided)",
     "Certificate hash found and active (no proof provided)"}

\* the record the ledger looks up for the fingerprint is active
LooksUpActive(list, fp, Hash(_)) ==
    /\ LookedUp(list, fp, Hash) # 0
    /\ list[LookedUp(list, fp, Hash)].status = "active"

\* C28: hash-only mode: a ledger verify with the empty proof string, for a
\* fingerprint whose looked-up record is active, returns valid = true with
\* the 'no proof provided' message and compares no proof; that message is
\* returned by no other kind of call.
C28_HashOnlyMode ==
    [][/\ \A h \in Fingerprints :
              /\ LooksUpActive(certificates, h, ContractHash) =>
                     /\ ChainVerification(h, EmptyStr).valid
                     /\ ~ChainVerification(h, EmptyStr).proofValid
                     /\ ChainVerification(h, EmptyStr).message =
                            "Certificate exists and is active (no proof provided)"
              /\ LooksUpActive(blockchain, h, SimHash) =>
                     /\ HashVerification(h, EmptyStr).valid
                     /\ HashVerification(h, EmptyStr).result = "valid"
                     /\ HashVerification(h, EmptyStr).message =
                            "Certificate hash found and active (no proof provided)"
       /\ (/\ ret'.op = "verifyCertificateOnChain"
           /\ ~Last(transactions').args.hasProof
           /\ LooksUpActive(certificates, ret'.fp, ContractHash)) =>
              /\ ret'.valid
              /\ ret'.message = "Certificate exists and is active (no proof provided)"
              /\ ~Last(events').args.proofValid
       /\ (ret'.op \in VerifyOps /\ ret'.message \in NoProofMessages) =>
              /\ ret'.valid
              /\ \/ LooksUpActive(certificates, ret'.fp, ContractHash)
                 \/ LooksUpActive(blockchain, ret'.fp, SimHash)]_vars

\* a verify without a proof has found an active record in a ledger that
\* holds two certificates
C28_Witness ==
    /\ ret.op = "verifyCertificateOnChain"
    /\ ret.valid
    /\ ret.message = "Certificate exists and is active (no proof provided)"
    /\ ~Last(transactions).args.hasProof
    /\ Len(certificates) >= 2

\* the proof strings a verifier may supply
SuppliedProofs == ProofJsons \ {EmptyStr}

ProofMismatchMessages ==
    {"Proof verification failed", "Proof does not match stored certificate"}

ProofMatchMessages ==
    {"Certificate verified successfully", "Certificate is valid and active"}

\* C31: for an active looked-up record issued with proof P, ledger verify
\* with a non-empty proof string is valid exactly when the hash of the
\* string equals the stored proofHash, the hash of JSON.stringify(P): the
\* serialization of P verifies, every other string gives valid = false
\* with the proof-mismatch message.
C31_ProofHashComparison ==
    [][/\ \A h \in Fingerprints : \A j \in SuppliedProofs :
              /\ LooksUpActive(certificates, h, ContractHash) =>
                     LET c == certificates[LookedUp(certificates, h, ContractHash)]
                         v == ChainVerification(h, j)
                     IN  /\ c.proofHash = hashString(JSONstringify(c.proof))
                         /\ v.valid <=> hashString(j) = c.proofHash
                         /\ v.valid <=> j = serializeProof(c.proof)
                         /\ v.proofValid = v.valid
                         /\ v.message = IF v.valid
                                        THEN "Certificate verified successfully"
                                        ELSE "Proof verification failed"
              /\ LooksUpActive(blockchain, h, SimHash) =>
                     LET r == blockchain[LookedUp(blockchain, h, SimHash)]
                         v == HashVerification(h, j)
                     IN  /\ r.proofHash = hashString(JSONstringify(r.proof))
                         /\ v.valid <=> hashString(j) = r.proofHash
                         /\ v.valid <=> j = serializeProof(r.proof)
                         /\ v.message = IF v.valid
                                        THEN "Certificate is valid and active"
                                        ELSE "Proof does not match stored certificate"
       /\ (ret'.op \in VerifyOps /\ ret'.message \in ProofMismatchMessages) =>
              ~ret'.valid
       /\ (ret'.op \in VerifyOps /\ ret'.message \in ProofMatchMessages) =>
              ret'.valid]_vars

\* the proof of another document has been supplied for an active certificate
C31_Witness ==
    /\ ret.op = "verifyCertificateOnChain"
    /\ ~ret.valid
    /\ ret.message = "Proof verification failed"
    /\ Last(transactions).args.hasProof
    /\ LooksUpActive(certificates, ret.fp, ContractHash)

\* C32: the audit record of a verification mirrors its outcome: the
\* CertificateVerified event has result equal to the returned valid flag,
\* proofValid true only when a supplied proof matched, and certificateId
\* equal to the looked-up record's id, or 'NOT_FOUND' when there is no
\* record; the simulation ledger's log has result 'valid' exactly when the
\* call returned valid = true.
C32_AuditMirrorsOutcome ==
    [][/\ ret'.op = "verifyCertificateOnChain" =>
              LET event == Last(events')
                  k == LookedUp(certificates, ret'.fp, ContractHash)
              IN  /\ event.eventName = "CertificateVerified"
                  /\ event.transactionHash = Last(transactions').hash
                  /\ event.args.result = ret'.valid
                  /\ event.args.proofValid =>
                         /\ Last(transactions').args.hasProof
                         /\ ret'.valid
                         /\ ret'.message = "Certificate verified successfully"
                  /\ (Last(transactions').args.hasProof /\ ret'.valid) =>
                         event.args.proofValid
                  /\ event.args.certificateId =
                         IF k # 0 THEN certificates[k].id ELSE Str(<<"NOT_FOUND">>, 9)
       /\ ret'.op = "verifyCertificate" =>
              /\ Last(verificationLogs').result = "valid" <=> ret'.valid
              /\ Last(verificationLogs').certificateHash = ret'.fp]_vars

\* a verification with the matching proof has been recorded
C32_Witness ==
    /\ ret.op = "verifyCertificateOnChain"
    /\ ret.valid
    /\ Last(events).args.proofValid
    /\ Last(events).args.result
    /\ Last(events).args.certificateId = ret.id

\* C33: whenever an active record with fingerprint F is in the ledger,
\* ledger verify of F without a proof returns valid = true, also after
\* issue F, revoke F, issue F again.
C33_ActiveRecordVerifies ==
    [][/\ \A h \in Fingerprints :
              /\ ActiveWith(certificates, h, ContractHash) # {} =>
                     ChainVerification(h, EmptyStr).valid
              /\ ActiveWith(blockchain, h, SimHash) # {} =>
                     HashVerification(h, EmptyStr).valid
       /\ (/\ ret'.op = "verifyCertificateOnChain"
           /\ ~Last(transactions').args.hasProof
           /\ ActiveWith(certificates, ret'.fp, ContractHash) # {}) =>
              ret'.valid]_vars

\* the blocks whose transactions list holds the hash
BlocksHolding(hash) ==
    {b \in DOMAIN blocks :
        \E k \in DOMAIN blocks[b].transactions : blocks[b].transactions[k] = hash}

\* C34: every recorded transaction belongs to exactly one block and knows
\* it: exactly one block lists its hash, and the transaction's blockNumber
\* is that block's number.
C34_TransactionKnowsItsBlock ==
    \A t \in DOMAIN transactions :
        /\ Cardinality(BlocksHolding(transactions[t].hash)) = 1
        /\ \A b \in BlocksHolding(transactions[t].hash) :
               transactions[t].blockNumber = blocks[b].number

\* C35: in every state reachable through the contract ledger's
\* operations the numbers of blocks, transactions and events are equal,
\* currentBlockNumber is the number of blocks plus 1, and totalCertificates
\* is the sum of the active, revoked and suspended certificates.
C35_CountersConsistent ==
    LET stats == getBlockchainStats
    IN  /\ stats.totalBlocks = stats.totalTransactions
        /\ stats.totalTransactions = stats.totalEvents
        /\ stats.currentBlockNumber = stats.totalBlocks + 1
        /\ stats.totalCertificates =
               stats.activeCertificates + stats.revokedCertificates
                   + stats.suspendedCertificates

\* four calls have been recorded, over certificates of more than one status
C35_Witness ==
    /\ getBlockchainStats.totalBlocks = 4
    /\ getBlockchainStats.currentBlockNumber = 5
    /\ getBlockchainStats.activeCertificates = 1
    /\ getBlockchainStats.revokedCertificates = 1

\* C40: statusHistory is consistent with the current status: in every
\* reachable state of the simulation ledger, for each record the 'to' of the
\* last statusHistory entry equals the record's status, and each entry's
\* 'from' equals the 'to' of the entry before it.
C40_HistoryMatchesStatus ==
    \A i \in DOMAIN blockchain :
        LET history == blockchain[i].statusHistory
        IN  /\ Len(history) >= 1
            /\ history[Len(history)].to = blockchain[i].status
            /\ \A k \in 2..Len(history) : history[k].from = history[k - 1].to

\* a record was issued, suspended and then revoked
C40_Witness ==
    \E i \in DOMAIN blockchain :
        /\ Len(blockchain[i].statusHistory) = 3
        /\ blockchain[i].statusHistory[2].to = "suspended"
        /\ blockchain[i].statusHistory[3].from = "suspended"
        /\ blockchain[i].status = "revoked"

----------------------------------------------------------------------------
(* Claims about proof verification *)

\* every check of verifyProof other than the registry and the age passes
WellFormed(proof) ==
    /\ Present(proof.proof) /\ Present(proof.publicSignals) /\ Present(proof.metadata)
    /\ ~PairingThrows(proof.proof)
    /\ simulatePairingCheck(proof.proof)
    /\ ~SignalsThrow(proof.publicSignals)
    /\ verifyPublicSignals(proof.publicSignals)
    /\ CommitmentValid(proof.publicSignals[1])
    /\ DisclosuresValid(proof.metadata.disclosures)

\* C2: within one browsing context, verifyProof(proof, fp, true) on a
\* well-formed proof that has not expired and whose nullifier is not in the
\* registry returns valid = true; and every call on a proof that was accepted
\* and consumed since the last resetNullifiers returns valid = false with the
\* nullifier-reuse message and details.nullifierUnique = false.
C2_NullifierSingleUse ==
    [][ret'.op = "verifyProof" =>
          /\ ( /\ ret'.mark
               /\ WellFormed(ret'.proof)
               /\ ~Expired(ret'.proof.metadata.generatedAt, now)
               /\ NullifierOf(ret'.proof) \notin nullifiers )
             => ret'.valid
          /\ ret'.proof \in accepted
             => /\ ~ret'.valid
                /\ ret'.message = NullifierReuseMessage
                /\ ~ret'.details.nullifierUnique]_vars

\* a proof accepted earlier has been presented again and refused as reused
C2_Witness ==
    /\ ret.op = "verifyProof"
    /\ ret.proof \in accepted
    /\ ~ret.valid
    /\ ret.message = NullifierReuseMessage

\* C3: of two concurrent verifyProof(proof, fp, true) calls on the same
\* well-formed, unconsumed proof, at most one returns valid = true.
C3_AtMostOneConcurrentAccept ==
    \A c1, c2 \in Callers :
        ( /\ c1 # c2
          /\ pc[c1] = "done" /\ pc[c2] = "done"
          /\ loc[c1].call.proof = loc[c2].call.proof
          /\ loc[c1].call.mark /\ loc[c2].call.mark )
        => ~(loc[c1].call.valid /\ loc[c2].call.valid)

\* the stage of the specification's list a message of verifyProof belongs
\* to; 7 is success
StageOfMessage(message) ==
    CASE message \in {"Invalid proof structure",
                      "Pairing check failed - proof is invalid",
                      "Verification error: TypeError"} -> 1
      [] message \in {"Public signals verification failed",
                      "Verification error: startsWith is not a function"} -> 2
      [] message = NullifierReuseMessage -> 3
      [] message = "Commitment verification failed" -> 4
      [] message = "Disclosed attributes verification failed" -> 5
      [] message = "Proof has expired (older than 24 hours)" -> 6
      [] message = "Proof verified successfully" -> 7

\* check k of the list, taken by itself, does not pass
FailsCheck(k, proof, registry, t) ==
    CASE k = 1 -> \/ ~(Present(proof.proof) /\ Present(proof.publicSignals)
                         /\ Present(proof.metadata))
                  \/ PairingThrows(proof.proof)
                  \/ ~simulatePairingCheck(proof.proof)
      [] k = 2 -> \/ ~Present(proof.publicSignals)
                  \/ SignalsThrow(proof.publicSignals)
                  \/ ~verifyPublicSignals(proof.publicSignals)
      [] k = 3 -> /\ Present(proof.publicSignals)
                  /\ Len(proof.publicSignals) >= 2
                  /\ proof.publicSignals[2] \in registry
      [] k = 4 -> \/ ~Present(proof.publicSignals)
                  \/ Len(proof.publicSignals) < 1
                  \/ ~CommitmentValid(proof.publicSignals[1])
      [] k = 5 -> \/ ~Present(proof.metadata)
                  \/ ~DisclosuresValid(proof.metadata.disclosures)
      [] k = 6 -> /\ Present(proof.metadata)
                  /\ Expired(proof.metadata.generatedAt, t)

FirstFailing(proof, registry, t) ==
    IF \E k \in 1..6 : FailsCheck(k, proof, registry, t)
    THEN CHOOSE k \in 1..6 :
             /\ FailsCheck(k, proof, registry, t)
             /\ \A j \in 1..(k - 1) : ~FailsCheck(j, proof, registry, t)
    ELSE 7

\* C13: verifyProof reports the earliest failing check in the order
\* structure, public signals, nullifier uniqueness, commitment shape,
\* disclosure well-formedness, freshness, and succeeds when none fails.
C13_EarliestFailingStage ==
    [][ret'.op = "verifyProof" =>
          StageOfMessage(ret'.message) = FirstFailing(ret'.proof, nullifiers, now)]_vars

\* a proof with a used nullifier, a malformed commitment and an age over 24
\* hours has been reported as nullifier reuse
C13_Witness ==
    /\ ret.op = "verifyProof"
    /\ ret.message = NullifierReuseMessage
    /\ FailsCheck(4, ret.proof, nullifiers, now)
    /\ FailsCheck(6, ret.proof, nullifiers, now)

\* generatedAt is a time at most 24 hours away from t
WithinWindow(generatedAt, t) ==
    /\ generatedAt.kind = "iso"
    /\ t - generatedAt.ms <= maxAge
    /\ generatedAt.ms - t <= maxAge

\* C14: verifyProof returns valid = true only if generatedAt lies within 24
\* hours of the verification time; with every other check passing, a proof
\* older than 24 hours gets the expired message and a proof one hour old is
\* accepted.
C14_FreshnessWindow ==
    [][ret'.op = "verifyProof" =>
          /\ ret'.valid => WithinWindow(ret'.proof.metadata.generatedAt, now)
          /\ ( /\ WellFormed(ret'.proof)
               /\ NullifierOf(ret'.proof) \notin nullifiers
               /\ ret'.proof.metadata.generatedAt.kind = "iso" )
             => /\ now - ret'.proof.metadata.generatedAt.ms > maxAge
                   => /\ ~ret'.valid
                      /\ ret'.message = "Proof has expired (older than 24 hours)"
                /\ now - ret'.proof.metadata.generatedAt.ms = HourMs
                   => ret'.valid]_vars

\* C15: verifyProof changes the nullifier registry only when it returns
\* valid = true with markNullifierUsed = true, and then adds exactly the
\* proof's nullifier; every other call leaves the registry as it was.
C15_RegistryFrame ==
    [][ret'.op = "verifyProof" =>
          nullifiers' = IF ret'.valid /\ ret'.mark
                        THEN nullifiers \cup {NullifierOf(ret'.proof)}
                        ELSE nullifiers]_vars

\* a second proof has been consumed next to the first, and an expired proof
\* presented for consumption has left the registry alone
C15_Witness ==
    \/ /\ ret.op = "verifyProof"
       /\ ret.valid /\ ret.mark
       /\ Cardinality(nullifiers) = 2
    \/ /\ ret.op = "verifyProof"
       /\ ret.mark
       /\ ret.message = "Proof has expired (older than 24 hours)"
       /\ NullifierOf(ret.proof) \notin nullifiers
       /\ nullifiers # {}

\* C25: verifyProof never throws: for every proof, also one with a
\* sub-object missing, an array of the wrong shape, a signal that is not a
\* string or an unparsable generatedAt, and every registry, the call returns
\* a VerificationResult.
C25_VerifyProofNeverThrows ==
    ret.op = "verifyProof" =>
        /\ ~ret.threw
        /\ ret.valid \in BOOLEAN
        /\ ret.details \in [proofValid : BOOLEAN, commitmentValid : BOOLEAN,
                            nullifierUnique : BOOLEAN, disclosuresVerified : BOOLEAN]
        /\ ret.valid => ret.message = "Proof verified successfully"

\* the check of a proof whose nullifier is a number has thrown inside the
\* try block, and the call has returned the error result
C25_Witness ==
    /\ ret.op = "verifyProof"
    /\ ret.proof = NumberSignalProof
    /\ ~ret.valid
    /\ ret.message = "Verification error: startsWith is not a function"

\* the nullifiers a caller may hand to the registry
SomeNullifiers ==
    {NullifierOf(p) : p \in {ProofA, ProofB, BadSignalsProof}}

\* C26: saveNullifier is idempotent and monotone: after saveNullifier(n),
\* isNullifierUsed(n) holds; saving n again leaves the registry as it is;
\* saving n changes the membership of no other nullifier. A verifyProof
\* that has consumed a proof has saved its nullifier.
C26_SaveNullifierIdempotent ==
    /\ \A n \in SomeNullifiers :
           LET saved == saveNullifier(nullifiers, n)
           IN  /\ isNullifierUsed(saved, n)
               /\ saveNullifier(saved, n) = saved
               /\ \A other \in SomeNullifiers \ {n} :
                      isNullifierUsed(saved, other) = isNullifierUsed(nullifiers, other)
    /\ (ret.op = "verifyProof" /\ ret.valid /\ ret.mark) =>
           /\ isNullifierUsed(nullifiers, NullifierOf(ret.proof))
           /\ saveNullifier(nullifiers, NullifierOf(ret.proof)) = nullifiers

\* a second nullifier has been saved into a registry that held one
C26_Witness ==
    /\ ret.op = "verifyProof" /\ ret.valid /\ ret.mark
    /\ Cardinality(nullifiers) = 2
    /\ NullifierOf(ret.proof) \in nullifiers

C38_RegistryGrowOnly ==
    [][nullifiers \subseteq nullifiers']_vars

----------------------------------------------------------------------------
(* Claims about proof generation *)

\* C29: generate-then-verify round trip: the proof generateProof returns,
\* verified at once against a registry that lacks its nullifier, yields
\* valid = true with disclosedAttributes equal to the proof's disclosures; a
\* request for 'ageOver18' gives an attribute with key 'ageOver18' and
\* value true.
C29_GenerateThenVerify ==
    [][(/\ ret.op = "generateProof"
        /\ ret'.op = "verifyProof"
        /\ ~isNullifierUsed(nullifiers, NullifierOf(ret.proof))) =>
           /\ ret'.proof = ret.proof
           /\ ret'.valid
           /\ ret'.message = "Proof verified successfully"
           /\ ret'.disclosedAttributes = ret.proof.metadata.disclosures
           /\ (\E i \in DOMAIN ret.request.selectedDisclosures :
                   ret.request.selectedDisclosures[i] = "ageOver18") =>
                  \E j \in DOMAIN ret'.disclosedAttributes :
                      /\ ret'.disclosedAttributes[j].key = Str(<<"ageOver18">>, 9)
                      /\ ret'.disclosedAttributes[j].value = TRUE]_vars

\* the second proof generated has been verified against a registry that
\* holds the nullifier of the first, and discloses two attributes
C29_Witness ==
    /\ ret.op = "verifyProof"
    /\ ret.valid
    /\ draws = 2
    /\ nullifiers \ {NullifierOf(ret.proof)} # {}
    /\ Len(ret.disclosedAttributes) = 2

\* C30: the disclosures of a generated proof hold one entry for every
\* selected key that has a case in the switch, in the order of the request,
\* and none for the other keys; publicSignals is the commitment and the
\* nullifier followed by the proofElement of every disclosure, of length 2
\* plus the number of disclosures.
C30_DisclosuresFollowSelection ==
    ret.op = "generateProof" =>
        LET selected == ret.request.selectedDisclosures
            cased == SelectSeq(selected, LAMBDA d : d \in SwitchCases)
            disclosures == ret.proof.metadata.disclosures
            publicSignals == ret.proof.publicSignals
        IN  /\ Len(disclosures) = Len(cased)
            /\ \A i \in DOMAIN cased : disclosures[i].key.text = <<cased[i]>>
            /\ Len(publicSignals) = 2 + Len(disclosures)
            /\ \E salt \in Salts :
                   /\ publicSignals[1] =
                          generateCommitment(<<ret.request.documentHash,
                                               ret.request.holderName,
                                               ret.request.holderDOB,
                                               JSONstringify(ret.request.documentData),
                                               salt>>)
                   /\ publicSignals[2] =
                          generateNullifier(ret.request.documentHash, salt)
            /\ \A i \in DOMAIN disclosures :
                   publicSignals[2 + i] = disclosures[i].proofElement

\* a request for a key without a case and a key with one has produced a
\* proof with the one disclosure
C30_Witness ==
    /\ ret.op = "generateProof"
    /\ ret.request.selectedDisclosures = <<"shoeSize", "ageOver18">>
    /\ Len(ret.proof.metadata.disclosures) = 1
    /\ Len(ret.proof.publicSignals) = 3

----------------------------------------------------------------------------
(* Claims about the verification page *)

\* the ledger check and the proof check of the handler both succeeded
FullySucceeded(r) == r.chainValid /\ r.zkRan /\ r.zkValid

\* C16: handleVerify consumes the proof's nullifier exactly when the
\* end-to-end check fully succeeds (so that the same proof is refused as a
\* replay the next time), and leaves the registry alone otherwise.
C16_ConsumesOnFullSuccess ==
    [][ret'.op = "handleVerify" =>
          IF FullySucceeded(ret')
          THEN nullifiers' = nullifiers \cup {NullifierOf(ret'.proof)}
          ELSE nullifiers' = nullifiers]_vars

\* C36: when a proof is supplied, the composite result of handleVerify is
\* valid only if verifyProof succeeded as well: a proof that matches the
\* stored proof hash but fails verifyProof (expired, or its nullifier used)
\* never gives a composite valid = true.
C36_CompositeNeedsProofEngine ==
    [][(/\ ret'.op = "handleVerify"
        /\ ret'.proof # Null
        /\ ret'.chainValid
        /\ ret'.valid) => (ret'.zkRan /\ ret'.zkValid)]_vars

----------------------------------------------------------------------------
(* Claims about concurrent ledger calls *)

\* C20: under every interleaving of two callers' ledger calls no two blocks
\* of the block list have the same number, no block once in the list is
\* lost, and every block's parentHash is the hash of the block before it.
C20_BlockNumberAndAppendAtomic ==
    [][/\ \A i, j \in DOMAIN blocks' :
              i # j => blocks'[i].number # blocks'[j].number
       /\ \A i \in DOMAIN blocks :
              \E j \in DOMAIN blocks' : blocks'[j] = blocks[i]
       /\ \A i \in DOMAIN blocks' :
              blocks'[i].parentHash =
                  IF i = 1 THEN ZeroHash ELSE blocks'[i - 1].hash]_vars

\* C39: no lost updates between concurrent ledger mutations on different
\* fingerprints: under any interleaving of two callers' calls, once both
\* calls have made all their writes the certificate list reflects both
\* effects and both calls' transactions and events are present.
C39_NoLostUpdates ==
    \A c1, c2 \in Callers :
        (/\ c1 # c2
         /\ At(c1, "await")
         /\ At(c2, "await")
         /\ loc[c1].op = "issueCertificate"
         /\ loc[c1].fp # loc[c2].fp) =>
            \A c \in {c1, c2} :
                /\ \E i \in DOMAIN transactions : transactions[i] = loc[c].tx
                /\ \E i \in DOMAIN events :
                       events[i].transactionHash = loc[c].tx.hash
                /\ loc[c].op = "issueCertificate" =>
                       \E i \in DOMAIN certificates :
                           /\ certificates[i].documentHash = loc[c].fp
                           /\ certificates[i].id = loc[c].id

====
